---- MODULE Spec2Model ----
(***************************************************************************)
(* A model of the supersaiyan query builder: the shape-sniffing JSON       *)
(* decoder, the JSON encoder, the dynamic value resolver (handleAny), the  *)
(* condition/expression compilers and the fluent SQLBuilder.               *)
(*                                                                         *)
(* Three kinds of values appear, each a tagged record:                     *)
(*   j |-> ...   a JSON value on the wire (an object is the sequence of    *)
(*               its <<key, value>> members, in document order);          *)
(*   g |-> ...   a Go value (nil, string, number, slice, map, pointer, a   *)
(*               typed node, an error);                                    *)
(*   x |-> ...   a backend (goqu) expression, the output of compilation.   *)
(***************************************************************************)
EXTENDS Integers, Sequences, FiniteSets, TLC

VARIABLES
    qb,        \* the SQLBuilder under construction
    ret,       \* what the last SQLBuilder call returned
    restored,  \* the SQLBuilder decoded from qb's JSON encoding
    doc,       \* a JSON node handed to the decoder
    cond,      \* unmarshalCondition(doc)
    expr,      \* unmarshalExpression(doc)
    val,       \* a Go expression/condition value to encode
    wire,      \* its JSON encoding
    back,      \* the value decoded from wire
    arg,       \* the value handed to handleAny
    opts,      \* the options handed to handleAny
    out,       \* handleAny(arg, opts...)
    passed,    \* the arguments the builder's methods have been called with, per method
    viaYAML,   \* the SQLBuilder decoded from the YAML form of doc
    text,      \* an operator string handed to a parser
    parsed     \* what the parsers make of text

vars ==
    <<qb, ret, restored, doc, cond, expr, val, wire, back, arg, opts, out,
      passed, viaYAML, text, parsed>>

\* The value of a variable whose operation has not run.
NotRun == [g |-> "notrun"]

(***************************************************************************)
(* JSON values.                                                            *)
(***************************************************************************)
JNull == [j |-> "null"]
JStr(s) == [j |-> "string", s |-> s]
JNum(n) == [j |-> "number", n |-> n]
JArr(a) == [j |-> "array", a |-> a]
JObj(kv) == [j |-> "object", kv |-> kv]

\* The keys of an object; a JSON null decodes into a struct or a map as an
\* object without members does.
Members(d) == IF d.j = "object" THEN d.kv ELSE <<>>
Keys(d) == {Members(d)[i][1] : i \in 1..Len(Members(d))}
Has(d, k) == k \in Keys(d)
\* encoding/json keeps the last member of a repeated key.
Get(d, k) ==
    LET kv == Members(d)
        i == CHOOSE n \in 1..Len(kv) :
                 kv[n][1] = k /\ \A m \in (n + 1)..Len(kv) : kv[m][1] # k
    IN kv[i][2]

(***************************************************************************)
(* Go values.                                                              *)
(***************************************************************************)
GNil == [g |-> "nil"]
GStr(s) == [g |-> "string", s |-> s]
GNum(n) == [g |-> "number", n |-> n]
GSlice(e) == [g |-> "slice", e |-> e, isNil |-> FALSE]
GNilSlice == [g |-> "slice", e |-> <<>>, isNil |-> TRUE]
GMap(m) == [g |-> "map", m |-> m]
GPtr(p) == [g |-> "ptr", p |-> p]
GNilPtr == [g |-> "nilptr"]
\* An expression already built with goqu, carried as a value.
GExpr(e) == [g |-> "goqu", e |-> e]

ErrNew(msg) == [g |-> "error", msg |-> msg]
ErrWrap(msg, cause) == [g |-> "error", msg |-> msg, cause |-> cause]
ErrWrapAt(msg, i, cause) == [g |-> "error", msg |-> msg, index |-> i, cause |-> cause]
IsErr(v) == v.g = "error"
\* encoding/json's own error: a member whose JSON type does not fit the Go field.
ErrJSON == ErrNew("json: cannot unmarshal")

\* The index of the first error of a sequence of results, 0 when there is none.
FirstError(rs) ==
    IF \E i \in 1..Len(rs) : IsErr(rs[i])
    THEN CHOOSE i \in 1..Len(rs) : IsErr(rs[i]) /\ \A k \in 1..(i - 1) : ~IsErr(rs[k])
    ELSE 0

(***************************************************************************)
(* Operator enumerations and their wire strings.                           *)
(***************************************************************************)
BoolOps ==
    {"EqOp", "NeqOp", "IsOp", "IsNotOp", "GtOp", "GteOp", "LtOp", "LteOp",
     "InOp", "NotInOp", "LikeOp", "NotLikeOp", "ILikeOp", "NotILikeOp",
     "RegexpLikeOp", "RegexpNotLikeOp", "RegexpILikeOp", "RegexpNotILikeOp"}

boolOpToString(op) ==
    CASE op = "EqOp" -> "eq"
      [] op = "NeqOp" -> "neq"
      [] op = "IsOp" -> "is"
      [] op = "IsNotOp" -> "isNot"
      [] op = "GtOp" -> "gt"
      [] op = "GteOp" -> "gte"
      [] op = "LtOp" -> "lt"
      [] op = "LteOp" -> "lte"
      [] op = "InOp" -> "in"
      [] op = "NotInOp" -> "notIn"
      [] op = "LikeOp" -> "like"
      [] op = "NotLikeOp" -> "notLike"
      [] op = "ILikeOp" -> "iLike"
      [] op = "NotILikeOp" -> "notILike"
      [] OTHER -> "eq"

stringToBoolOp(s) ==
    CASE s = "eq" -> "EqOp"
      [] s = "neq" -> "NeqOp"
      [] s = "is" -> "IsOp"
      [] s = "isNot" -> "IsNotOp"
      [] s = "gt" -> "GtOp"
      [] s = "gte" -> "GteOp"
      [] s = "lt" -> "LtOp"
      [] s = "lte" -> "LteOp"
      [] s = "in" -> "InOp"
      [] s = "notIn" -> "NotInOp"
      [] s = "like" -> "LikeOp"
      [] s = "notLike" -> "NotLikeOp"
      [] s = "iLike" -> "ILikeOp"
      [] s = "notILike" -> "NotILikeOp"
      [] OTHER -> "EqOp"

rangeOpToString(op) ==
    CASE op = "BetweenOp" -> "between"
      [] op = "NotBetweenOp" -> "notBetween"
      [] OTHER -> "between"

stringToRangeOp(s) ==
    CASE s = "between" -> "BetweenOp"
      [] s = "notBetween" -> "NotBetweenOp"
      [] OTHER -> "BetweenOp"

expressionListTypeToString(elt) ==
    CASE elt = "AndType" -> "AND"
      [] elt = "OrType" -> "OR"
      [] OTHER -> "AND"

stringToExpressionListType(s) ==
    CASE s = "OR" -> "OrType"
      [] s = "AND" -> "AndType"
      [] OTHER -> "AndType"

joinTypeToString(jt) ==
    CASE jt = "InnerJoinType" -> "INNER"
      [] jt = "LeftJoinType" -> "LEFT"
      [] jt = "RightJoinType" -> "RIGHT"
      [] jt = "FullOuterJoinType" -> "FULL OUTER"
      [] jt = "CrossJoinType" -> "CROSS"
      [] OTHER -> "INNER"

\* stringToJoinType without the case for FULL OUTER.
stringToJoinType_noFullOuter(s) ==
    CASE s = "INNER" -> "InnerJoinType"
      [] s = "LEFT" -> "LeftJoinType"
      [] s = "RIGHT" -> "RightJoinType"
      [] s = "CROSS" -> "CrossJoinType"
      [] OTHER -> "InnerJoinType"

stringToJoinType(s) ==
    CASE s = "INNER" -> "InnerJoinType"
      [] s = "LEFT" -> "LeftJoinType"
      [] s = "RIGHT" -> "RightJoinType"
      [] s = "FULL OUTER" -> "FullOuterJoinType"
      [] s = "CROSS" -> "CrossJoinType"
      [] OTHER -> "InnerJoinType"

sortDirectionToString(sd) ==
    CASE sd = "AscDir" -> "ASC"
      [] sd = "DescSortDir" -> "DESC"
      [] OTHER -> "ASC"

stringToSortDirection(s) ==
    CASE s = "DESC" -> "DescSortDir"
      [] s = "ASC" -> "AscDir"
      [] OTHER -> "AscDir"

(***************************************************************************)
(* Typed nodes.                                                            *)
(***************************************************************************)
Field(name, tableAlias, fieldAlias, exp) ==
    [g |-> "Field", Name |-> name, TableAlias |-> tableAlias,
     FieldAlias |-> fieldAlias, Exp |-> exp]
Literal(value, args) == [g |-> "Literal", Value |-> value, Args |-> args]
WhenThen(when, then) == [g |-> "WhenThen", When |-> when, Then |-> then]
Case(conditions, else) == [g |-> "Case", Conditions |-> conditions, Else |-> else]
Coalesce(fields, defaultValue) ==
    [g |-> "Coalesce", Fields |-> fields, DefaultValue |-> defaultValue]
BoolOp(op, fieldName, tableAlias, value) ==
    [g |-> "BoolOp", Op |-> op, FieldName |-> fieldName,
     TableAlias |-> tableAlias, Value |-> value]
RangeOp(op, fieldName, tableAlias, start, end) ==
    [g |-> "RangeOp", Op |-> op, FieldName |-> fieldName,
     TableAlias |-> tableAlias, Start |-> start, End |-> end]
WhereGroup(op, conditions) == [g |-> "WhereGroup", Op |-> op, Conditions |-> conditions]
Sort(name, tableAlias, order) ==
    [g |-> "Sort", Name |-> name, TableAlias |-> tableAlias, Order |-> order]
Table(name, alias, relations) ==
    [g |-> "Table", Name |-> name, Alias |-> alias, Relations |-> relations]
Relation(joinType, on, table) ==
    [g |-> "Relation", JoinType |-> joinType, On |-> on, Table |-> table]
SQLBuilder(dialect, fields, table, wheres, sorts, groupBy, limit, offset) ==
    [g |-> "SQLBuilder", Dialect |-> dialect, Fields |-> fields, Table |-> table,
     Wheres |-> wheres, Sorts |-> sorts, GroupBy |-> groupBy,
     limit |-> limit, offset |-> offset]

(***************************************************************************)
(* encoding/json decoding of struct members.                               *)
(***************************************************************************)
\* json.Unmarshal into a struct or a map accepts an object or null.
StructOK(d) == d.j \in {"object", "null"}
\* A string member: absent and null leave "", a string sets it, anything else
\* is an UnmarshalTypeError.
StrOK(d, k) == ~Has(d, k) \/ Get(d, k).j \in {"string", "null"}
StrOf(d, k) == IF Has(d, k) /\ Get(d, k).j = "string" THEN Get(d, k).s ELSE ""
\* A slice member ([]json.RawMessage, []Field, ...): absent and null leave nil.
ListOK(d, k) == ~Has(d, k) \/ Get(d, k).j \in {"array", "null"}
ListOf(d, k) == IF Has(d, k) /\ Get(d, k).j = "array" THEN Get(d, k).a ELSE <<>>

\* json.Unmarshal into an `any`: the untyped Go image of a JSON value.
RECURSIVE rawValue(_)
rawValue(d) ==
    CASE d.j = "null" -> GNil
      [] d.j = "string" -> GStr(d.s)
      [] d.j = "number" -> GNum(d.n)
      [] d.j = "array" -> GSlice([i \in 1..Len(d.a) |-> rawValue(d.a[i])])
      [] d.j = "object" -> GMap([k \in Keys(d) |-> rawValue(Get(d, k))])

(***************************************************************************)
(* The shape-sniffing decoder.  Every decoder returns the decoded Go value *)
(* or an error value (IsErr).                                              *)
(***************************************************************************)
ErrUnknownCondition == ErrNew("unknown condition type")
ErrUnknownExpression == ErrNew("unknown expression type")

RECURSIVE unmarshalValue(_)
RECURSIVE unmarshalCondition(_)
RECURSIVE unmarshalExpression(_)
RECURSIVE BoolOp_UnmarshalJSON(_)
RECURSIVE RangeOp_UnmarshalJSON(_)
RECURSIVE WhereGroup_UnmarshalJSON(_)
RECURSIVE WhenThen_UnmarshalJSON(_)
RECURSIVE Case_UnmarshalJSON(_)
RECURSIVE Coalesce_Unmarshal(_)
RECURSIVE Literal_UnmarshalJSON(_)
RECURSIVE Field_UnmarshalJSON(_)

\* sniffCase looking at the first entry only.
sniffCase_firstOnly(data) ==
    /\ Has(data, "conditions")
    /\ LET c == Get(data, "conditions")
       IN /\ c.j = "array"
          /\ Len(c.a) > 0
          /\ Has(c.a[1], "when")

\* The Case test of unmarshalExpression: `conditions` decodes as a list of
\* objects ([]map[string]any; a null entry is a nil map), is not empty, and its
\* first entry has the key `when`.
sniffCase(data) ==
    /\ Has(data, "conditions")
    /\ LET c == Get(data, "conditions")
       IN /\ c.j = "array"
          /\ \A i \in 1..Len(c.a) : c.a[i].j \in {"object", "null"}
          /\ Len(c.a) > 0
          /\ Has(c.a[1], "when")

\* unmarshalCondition testing the group signature before the comparison one.
unmarshalCondition_groupFirst(data) ==
    IF ~StructOK(data) THEN ErrJSON
    ELSE IF Has(data, "op") /\ Has(data, "conditions")
         THEN WhereGroup_UnmarshalJSON(data)
    ELSE IF Has(data, "op") /\ Has(data, "fieldName")
         THEN IF Has(data, "start")
              THEN RangeOp_UnmarshalJSON(data)
              ELSE BoolOp_UnmarshalJSON(data)
    ELSE ErrUnknownCondition

\* unmarshalExpression without the `start` test of its last rule.
unmarshalExpression_noStart(data) ==
    IF ~StructOK(data) THEN ErrJSON
    ELSE IF sniffCase(data) THEN Case_UnmarshalJSON(data)
    ELSE IF Has(data, "fields") THEN Coalesce_Unmarshal(data)
    ELSE IF Has(data, "value") THEN Literal_UnmarshalJSON(data)
    ELSE IF Has(data, "name") THEN Field_UnmarshalJSON(data)
    ELSE IF Has(data, "op") /\ Has(data, "fieldName")
         THEN BoolOp_UnmarshalJSON(data)
    ELSE ErrUnknownExpression

\* unmarshalValue without the fallback: the error of the expression decoder is
\* returned.
orRaw_strict(value, data) == value

\* unmarshalValue's fallback: the expression when it decoded, else the
\* untyped value.
orRaw(value, data) == IF ~IsErr(value) THEN value ELSE rawValue(data)

unmarshalValue(data) == orRaw(unmarshalExpression(data), data)

unmarshalCondition(data) ==
    IF ~StructOK(data) THEN ErrJSON
    ELSE IF Has(data, "op") /\ Has(data, "fieldName")
         THEN IF Has(data, "start")
              THEN RangeOp_UnmarshalJSON(data)
              ELSE BoolOp_UnmarshalJSON(data)
    ELSE IF Has(data, "op") /\ Has(data, "conditions")
         THEN WhereGroup_UnmarshalJSON(data)
    ELSE ErrUnknownCondition

unmarshalExpression(data) ==
    IF ~StructOK(data) THEN ErrJSON
    ELSE IF sniffCase(data) THEN Case_UnmarshalJSON(data)
    ELSE IF Has(data, "fields") THEN Coalesce_Unmarshal(data)
    ELSE IF Has(data, "value") THEN Literal_UnmarshalJSON(data)
    ELSE IF Has(data, "name") THEN Field_UnmarshalJSON(data)
    ELSE IF Has(data, "op") /\ Has(data, "fieldName")
         THEN IF Has(data, "start")
              THEN RangeOp_UnmarshalJSON(data)
              ELSE BoolOp_UnmarshalJSON(data)
    ELSE ErrUnknownExpression

\* BoolOp.UnmarshalJSON once aux.Value has been decoded.
BoolOp_decoded(data, value) ==
    IF IsErr(value) THEN ErrWrap("failed to unmarshal value", value)
    ELSE BoolOp(stringToBoolOp(StrOf(data, "op")), StrOf(data, "fieldName"),
                StrOf(data, "tableAlias"), value)

BoolOp_UnmarshalJSON(data) ==
    IF ~(StructOK(data) /\ StrOK(data, "op") /\ StrOK(data, "fieldName")
         /\ StrOK(data, "tableAlias"))
    THEN ErrJSON
    ELSE BoolOp_decoded(data, IF Has(data, "value")
                              THEN unmarshalValue(Get(data, "value"))
                              ELSE GNil)

\* RangeOp.UnmarshalJSON once aux.Start and aux.End have been decoded.
RangeOp_decoded(data, start, end) ==
    IF IsErr(start) THEN ErrWrap("failed to unmarshal start", start)
    ELSE IF IsErr(end) THEN ErrWrap("failed to unmarshal end", end)
    ELSE RangeOp(stringToRangeOp(StrOf(data, "op")), StrOf(data, "fieldName"),
                 StrOf(data, "tableAlias"), start, end)

RangeOp_UnmarshalJSON(data) ==
    IF ~(StructOK(data) /\ StrOK(data, "op") /\ StrOK(data, "fieldName")
         /\ StrOK(data, "tableAlias"))
    THEN ErrJSON
    ELSE RangeOp_decoded(data,
             IF Has(data, "start") THEN unmarshalValue(Get(data, "start")) ELSE GNil,
             IF Has(data, "end") THEN unmarshalValue(Get(data, "end")) ELSE GNil)

\* WhereGroup.UnmarshalJSON returning a child's error as it is.
WhereGroup_decoded_bareError(data, rs) ==
    LET bad == FirstError(rs)
    IN IF bad # 0 THEN rs[bad]
       ELSE WhereGroup(stringToExpressionListType(StrOf(data, "op")), rs)

\* WhereGroup.UnmarshalJSON once every entry of aux.Conditions has been decoded.
WhereGroup_decoded(data, rs) ==
    LET bad == FirstError(rs)
    IN IF bad # 0
       THEN ErrWrapAt("failed to unmarshal condition at index", bad - 1, rs[bad])
       ELSE WhereGroup(stringToExpressionListType(StrOf(data, "op")), rs)

WhereGroup_UnmarshalJSON(data) ==
    IF ~(StructOK(data) /\ StrOK(data, "op") /\ ListOK(data, "conditions"))
    THEN ErrJSON
    ELSE LET raws == ListOf(data, "conditions")
         IN WhereGroup_decoded(data,
                [i \in 1..Len(raws) |-> unmarshalCondition(raws[i])])

\* The `when` of an arm with the expression decoder tried before the condition
\* decoder.
whenOf_expressionFirst(c, e, raw) ==
    IF ~IsErr(e) THEN e
    ELSE IF ~IsErr(c) THEN c
    ELSE rawValue(raw)

\* The `when` of an arm: the condition, else the expression, else the untyped
\* value.
whenOf(c, e, raw) ==
    IF ~IsErr(c) THEN c
    ELSE IF ~IsErr(e) THEN e
    ELSE rawValue(raw)

\* WhenThen.UnmarshalJSON once `when` and `then` have been decoded.
WhenThen_decoded(when, then) ==
    IF IsErr(then) THEN ErrWrap("failed to unmarshal then value", then)
    ELSE WhenThen(when, then)

WhenThen_UnmarshalJSON(data) ==
    IF ~StructOK(data) THEN ErrJSON
    ELSE WhenThen_decoded(
             IF ~Has(data, "when") THEN GNil
             ELSE whenOf(unmarshalCondition(Get(data, "when")),
                         unmarshalExpression(Get(data, "when")), Get(data, "when")),
             IF Has(data, "then") THEN unmarshalValue(Get(data, "then")) ELSE GNil)

\* Case.UnmarshalJSON once the arms and `else` have been decoded.
Case_decoded(rs, else) ==
    LET bad == FirstError(rs)
    IN IF bad # 0 THEN rs[bad] ELSE Case(rs, else)

Case_UnmarshalJSON(data) ==
    IF ~(StructOK(data) /\ ListOK(data, "conditions")) THEN ErrJSON
    ELSE LET raws == ListOf(data, "conditions")
         IN Case_decoded(
                [i \in 1..Len(raws) |-> WhenThen_UnmarshalJSON(raws[i])],
                IF ~Has(data, "else") THEN GNil
                ELSE orRaw(unmarshalExpression(Get(data, "else")), Get(data, "else")))

\* Coalesce once its fields have been decoded.
Coalesce_decoded(data, rs) ==
    LET bad == FirstError(rs)
        defaultValue ==
            IF Has(data, "defaultValue") THEN rawValue(Get(data, "defaultValue"))
            ELSE GNil
    IN IF bad # 0 THEN rs[bad] ELSE Coalesce(rs, defaultValue)

\* Coalesce has no UnmarshalJSON of its own: encoding/json fills the struct,
\* each field through Field.UnmarshalJSON and defaultValue as an untyped value.
Coalesce_Unmarshal(data) ==
    IF ~(StructOK(data) /\ ListOK(data, "fields")) THEN ErrJSON
    ELSE LET raws == ListOf(data, "fields")
         IN Coalesce_decoded(data,
                [i \in 1..Len(raws) |-> Field_UnmarshalJSON(raws[i])])

\* Literal.UnmarshalJSON once every arg has been decoded.
Literal_decoded(data, rs) ==
    LET bad == FirstError(rs)
    IN IF bad # 0
       THEN ErrWrapAt("failed to unmarshal arg at index", bad - 1, rs[bad])
       ELSE Literal(StrOf(data, "value"), rs)

Literal_UnmarshalJSON(data) ==
    IF ~(StructOK(data) /\ StrOK(data, "value") /\ ListOK(data, "args")) THEN ErrJSON
    ELSE LET raws == ListOf(data, "args")
         IN Literal_decoded(data, [i \in 1..Len(raws) |-> unmarshalValue(raws[i])])

\* Field.UnmarshalJSON once aux.Exp has been decoded.
Field_decoded(data, exp) ==
    IF IsErr(exp) THEN ErrWrap("failed to unmarshal field expression", exp)
    ELSE Field(StrOf(data, "name"), StrOf(data, "tableAlias"),
               StrOf(data, "fieldAlias"), exp)

Field_UnmarshalJSON(data) ==
    IF ~(StructOK(data) /\ StrOK(data, "name") /\ StrOK(data, "tableAlias")
         /\ StrOK(data, "fieldAlias"))
    THEN ErrJSON
    ELSE Field_decoded(data, IF Has(data, "exp")
                             THEN unmarshalExpression(Get(data, "exp"))
                             ELSE GNil)

(***************************************************************************)
(* The decoder's specification: a node is drawn from Nodes and handed to   *)
(* unmarshalCondition and to unmarshalExpression.                          *)
(***************************************************************************)
Reverse(q) == [i \in 1..Len(q) |-> q[Len(q) + 1 - i]]
ReverseMembers(d) == JObj(Reverse(d.kv))

boolNode ==
    JObj(<< <<"op", JStr("eq")>>, <<"fieldName", JStr("role")>>,
            <<"value", JStr("admin")>> >>)
groupNode == JObj(<< <<"op", JStr("OR")>>, <<"conditions", JArr(<<boolNode>>)>> >>)
armNode == JObj(<< <<"when", boolNode>>, <<"then", JStr("A")>> >>)
fieldNode == JObj(<< <<"name", JStr("amount")>>, <<"tableAlias", JStr("o")>> >>)
\* `conditions` without `op`: no condition signature.
unknownNode == JObj(<< <<"conditions", JArr(<<boolNode>>)>> >>)

\* The keys the decoders test, and the values a node may give each.
SniffKeys == <<"op", "fieldName", "start", "end", "conditions", "fields", "value", "name">>
ValsFor(k) ==
    CASE k = "op" -> {JStr("eq"), JStr("OR"), JNum(7)}
      [] k = "fieldName" -> {JStr("status")}
      [] k = "start" -> {JNum(1)}
      [] k = "end" -> {JNum(9)}
      [] k = "conditions" ->
             {JArr(<<>>), JArr(<<boolNode>>), JArr(<<boolNode, groupNode>>),
              JArr(<<boolNode, unknownNode>>), JArr(<<armNode>>),
              JArr(<<armNode, JNum(5)>>)}
      [] k = "fields" -> {JArr(<<fieldNode>>)}
      [] k = "value" -> {JStr("COUNT(*)"), JNum(18)}
      [] k = "name" -> {JStr("total")}

\* Every member list over a list of keys: each key absent, or present with one
\* of its values.
RECURSIVE MembersOver(_)
MembersOver(ks) ==
    IF ks = <<>> THEN {<<>>}
    ELSE LET rest == MembersOver(Tail(ks))
         IN rest \cup {<< <<Head(ks), v>> >> \o r : v \in ValsFor(Head(ks)), r \in rest}

\* Each node in two member orders.
Nodes ==
    LET fwd == {JObj(kv) : kv \in MembersOver(SniffKeys)}
    IN fwd \cup {ReverseMembers(d) : d \in fwd}

InitDecode ==
    /\ doc \in Nodes
    /\ cond = NotRun /\ expr = NotRun
    /\ qb = NotRun /\ ret = NotRun /\ restored = NotRun
    /\ val = NotRun /\ wire = NotRun /\ back = NotRun
    /\ arg = NotRun /\ opts = NotRun /\ out = NotRun
    /\ passed = NotRun /\ viaYAML = NotRun /\ text = NotRun /\ parsed = NotRun

DecodeCondition ==
    /\ doc # NotRun /\ cond = NotRun
    /\ cond' = unmarshalCondition(doc)
    /\ UNCHANGED <<qb, ret, restored, doc, expr, val, wire, back, arg, opts, out,
                   passed, viaYAML, text, parsed>>

DecodeExpression ==
    /\ doc # NotRun /\ expr = NotRun
    /\ expr' = unmarshalExpression(doc)
    /\ UNCHANGED <<qb, ret, restored, doc, cond, val, wire, back, arg, opts, out,
                   passed, viaYAML, text, parsed>>

NextDecode == DecodeCondition \/ DecodeExpression

SpecDecode == InitDecode /\ [][NextDecode]_vars

(***************************************************************************)
(* Claims about the decoder (SpecDecode).                                  *)
(***************************************************************************)
\* r is what the decoder of variant `shape` gives on node d.
DecodesAs(shape, d, r) ==
    CASE shape = "RangeOp" -> r = RangeOp_UnmarshalJSON(d) /\ (IsErr(r) \/ r.g = "RangeOp")
      [] shape = "BoolOp" -> r = BoolOp_UnmarshalJSON(d) /\ (IsErr(r) \/ r.g = "BoolOp")
      [] shape = "Case" -> r = Case_UnmarshalJSON(d) /\ (IsErr(r) \/ r.g = "Case")
      [] shape = "Coalesce" -> r = Coalesce_Unmarshal(d) /\ (IsErr(r) \/ r.g = "Coalesce")
      [] shape = "Literal" -> r = Literal_UnmarshalJSON(d) /\ (IsErr(r) \/ r.g = "Literal")
      [] shape = "Field" -> r = Field_UnmarshalJSON(d) /\ (IsErr(r) \/ r.g = "Field")
      [] OTHER -> FALSE

\* r is a WhereGroup whose entries are the entries of d's `conditions`, each
\* decoded by unmarshalCondition, in order; or the error of the first entry
\* that does not decode.
DecodesAsGroup(d, r) ==
    IF ~(StrOK(d, "op") /\ ListOK(d, "conditions")) THEN r = ErrJSON
    ELSE LET es == ListOf(d, "conditions")
             bad == {i \in 1..Len(es) : IsErr(unmarshalCondition(es[i]))}
         IN IF bad = {}
            THEN /\ r.g = "WhereGroup"
                 /\ r.Op = (IF StrOf(d, "op") = "OR" THEN "OrType" ELSE "AndType")
                 /\ Len(r.Conditions) = Len(es)
                 /\ \A i \in 1..Len(es) : r.Conditions[i] = unmarshalCondition(es[i])
            ELSE /\ IsErr(r)
                 /\ r # ErrUnknownCondition
                 /\ \E i \in bad :
                        /\ \A k \in bad : i <= k
                        /\ r.index = i - 1
                        /\ r.cause = unmarshalCondition(es[i])

ConditionShape(d) ==
    IF {"op", "fieldName"} \subseteq Keys(d)
    THEN IF "start" \in Keys(d) THEN "RangeOp" ELSE "BoolOp"
    ELSE IF {"op", "conditions"} \subseteq Keys(d) THEN "WhereGroup"
    ELSE "unknown"

FirstEntryHasWhen(d) ==
    /\ Has(d, "conditions")
    /\ Get(d, "conditions").j = "array"
    /\ Len(Get(d, "conditions").a) > 0
    /\ Has(Get(d, "conditions").a[1], "when")

\* Every entry of `conditions` is an object (or null).
EntriesAreObjects(d) ==
    /\ Has(d, "conditions")
    /\ Get(d, "conditions").j = "array"
    /\ \A i \in 1..Len(Get(d, "conditions").a) :
           Get(d, "conditions").a[i].j \in {"object", "null"}

ExpressionShape(d, caseShaped) ==
    IF caseShaped THEN "Case"
    ELSE IF Has(d, "fields") THEN "Coalesce"
    ELSE IF Has(d, "value") THEN "Literal"
    ELSE IF Has(d, "name") THEN "Field"
    ELSE IF {"op", "fieldName"} \subseteq Keys(d)
         THEN IF "start" \in Keys(d) THEN "RangeOp" ELSE "BoolOp"
    ELSE "unknown"

ExpressionPriority(caseShaped) ==
    expr # NotRun =>
        LET shape == ExpressionShape(doc, caseShaped)
        IN IF shape = "unknown" THEN expr = ErrUnknownExpression
           ELSE DecodesAs(shape, doc, expr) /\ expr # ErrUnknownExpression

\* C3 as stated: unmarshalExpression classifies a node by the priority
\* (1) `conditions` whose first entry has `when` -> Case, (2) `fields` ->
\* Coalesce, (3) `value` -> Literal, (4) `name` -> Field, (5) `op` and
\* `fieldName` -> RangeOp with `start`, else BoolOp, (6) the unknown-expression
\* error.  Read generously: the node decodes to a value of the variant the
\* priority names, or does not decode.
C3_AsStated ==
    expr # NotRun =>
        LET shape == ExpressionShape(doc, FirstEntryHasWhen(doc))
        IN IsErr(expr) \/ (shape # "unknown" /\ expr.g = shape)

\* C3 amended: the same priority, where rule (1) also needs every entry of
\* `conditions` to be an object: a list with a non-object entry is not a Case
\* and the node falls to rules (2)-(6).
C3_ExpressionPriority == ExpressionPriority(FirstEntryHasWhen(doc) /\ EntriesAreObjects(doc))

\* A node whose `conditions` start with a when-arm but hold a number too, and
\* which has `name`: decoded as a Field.
C3_Witness ==
    /\ expr # NotRun
    /\ FirstEntryHasWhen(doc) /\ ~EntriesAreObjects(doc)
    /\ ~Has(doc, "fields") /\ ~Has(doc, "value") /\ Has(doc, "name")
    /\ expr.g = "Field"

HasRangeKeys(d) == {"op", "fieldName", "start"} \subseteq Keys(d)

\* C4 as stated: a node with `op`, `fieldName` and `start` decodes as RangeOp,
\* never as BoolOp, in unmarshalCondition and in unmarshalExpression, whatever
\* its key order and its other keys.
C4_AsStated ==
    HasRangeKeys(doc) =>
        /\ cond # NotRun =>
               /\ DecodesAs("RangeOp", doc, cond)
               /\ cond = unmarshalCondition(ReverseMembers(doc))
        /\ expr # NotRun =>
               /\ DecodesAs("RangeOp", doc, expr)
               /\ expr = unmarshalExpression(ReverseMembers(doc))

\* C4 amended: such a node is decoded as RangeOp by unmarshalCondition whatever
\* its other keys, and by unmarshalExpression when it has none of `fields`,
\* `value`, `name` and no Case-shaped `conditions`; neither decoder makes it a
\* BoolOp, and neither depends on the order of the keys.
C4_RangeBeforeBool ==
    HasRangeKeys(doc) =>
        /\ cond # NotRun =>
               /\ DecodesAs("RangeOp", doc, cond)
               /\ cond.g # "BoolOp"
               /\ cond = unmarshalCondition(ReverseMembers(doc))
        /\ expr # NotRun =>
               /\ expr.g # "BoolOp"
               /\ expr = unmarshalExpression(ReverseMembers(doc))
               /\ (/\ ~Has(doc, "fields") /\ ~Has(doc, "value") /\ ~Has(doc, "name")
                   /\ ~(FirstEntryHasWhen(doc) /\ EntriesAreObjects(doc)))
                      => DecodesAs("RangeOp", doc, expr)

\* A node with the range keys, `end` and `conditions` too, whose keys come in
\* reverse order, decoded as a RangeOp by both decoders.
C4_Witness ==
    /\ HasRangeKeys(doc) /\ Has(doc, "conditions")
    /\ doc.kv[1][1] = "conditions"
    /\ cond # NotRun /\ cond.g = "RangeOp"
    /\ expr # NotRun /\ expr.g = "RangeOp"

(***************************************************************************)
(* Backend (goqu) expressions, as the compilers build them.                *)
(***************************************************************************)
\* goqu.L(sql, args...)
XL(sql, args) == [x |-> "L", sql |-> sql, args |-> args]
\* goqu.V(v): one bound value
XV(v) == [x |-> "V", v |-> v]
\* goqu.C(col).Table(table)
XIdent(table, col) == [x |-> "Ident", table |-> table, col |-> col]
\* e.As(alias)
XAs(e, alias) == [x |-> "As", e |-> e, alias |-> alias]
\* lhs.Eq(rhs), lhs.In(rhs), ...
XBool(op, lhs, rhs) == [x |-> "Bool", op |-> op, lhs |-> lhs, rhs |-> rhs]
\* lhs.Between(goqu.Range(start, end)), lhs.NotBetween(...)
XRange(op, lhs, start, end) ==
    [x |-> "Range", op |-> op, lhs |-> lhs, start |-> start, end |-> end]
\* goqu.And(exps...), goqu.Or(exps...)
XList(type, exps) == [x |-> "List", type |-> type, exps |-> exps]
\* goqu.Case().When(w, t)...[.Else(e)]
XCase(whens, hasElse, else) ==
    [x |-> "Case", whens |-> whens, hasElse |-> hasElse, else |-> else]
\* goqu.COALESCE(args...)
XFunc(name, args) == [x |-> "Func", name |-> name, args |-> args]
\* ident.Asc(), ident.Desc()
XOrder(e, dir) == [x |-> "Order", e |-> e, dir |-> dir]
\* A nil exp.Expression: the absent expression.
XNil == [x |-> "nil"]
\* A run-time panic that unwinds the call.
Panic == [x |-> "panic"]

\* A call panics when the evaluation of one of its operands panicked.
Unwinds(parts) == \E i \in 1..Len(parts) : parts[i] = Panic

\* handleAnyOption values: withAlias(alias), and the nil func value.
withAlias(alias) == [opt |-> "withAlias", alias |-> alias]
NilOption == [opt |-> "nil"]

(***************************************************************************)
(* The compilers: the value resolver handleAny and each node's             *)
(* expression().                                                           *)
(***************************************************************************)
\* A value of exp.BooleanOperation that is none of the eighteen constants.
UnknownBoolOp == "BooleanOperation(99)"

\* The dataset goqu.From(goqu.T(name).As(alias)).WithDialect(dialect) and the
\* clauses later calls add to it.
XSelect(dialect, from, joins, selects, wheres, order, groupBy) ==
    [x |-> "Select", dialect |-> dialect, from |-> from, joins |-> joins,
     selects |-> selects, wheres |-> wheres, order |-> order, groupBy |-> groupBy,
     limit |-> 0, offset |-> 0, prepared |-> FALSE]
\* ds.InnerJoin(goqu.T(name).As(alias), goqu.On(on...)) and its siblings
XJoin(type, table, on) == [x |-> "Join", type |-> type, table |-> table, on |-> on]
\* goqu.T(name).As(alias)
XTable(name, alias) == XAs([x |-> "T", name |-> name], alias)

\* The alias left in handleAnyOptions by `for _, opt := range opts { opt(&options) }`.
aliasOf(options) ==
    LET set == {i \in 1..Len(options) : options[i].opt = "withAlias"}
    IN IF set = {} THEN ""
       ELSE options[CHOOSE i \in set : \A k \in set : k <= i].alias

identifierExpression(f) == XIdent(f.TableAlias, f.Name)
aliased(f) == f.FieldAlias # ""

RECURSIVE handleAny(_, _)
RECURSIVE Field_expression(_)
RECURSIVE BoolOp_expression(_)
RECURSIVE RangeOp_expression(_)
RECURSIVE WhereGroup_expression(_)
RECURSIVE Literal_expression(_)
RECURSIVE Case_expression(_)
RECURSIVE Coalesce_expression(_)
RECURSIVE Relation_join(_, _)
RECURSIVE joinAll(_, _)
RECURSIVE mainSelect(_)

\* reflect: a non-nil pointer is replaced by the value it points to, once.
pointee_kept(a) == a
pointee(a) == IF a.g = "ptr" THEN a.p ELSE a

\* The slice rule: the empty-set literal for length 0, else the slice as one value.
sliceLiteral_alwaysValue(v) == XV(v)
sliceLiteral(v) ==
    IF Len(v.e) = 0 THEN XL("(?)", <<XV(GSlice(<<>>))>>) ELSE XV(v)

\* l.expression().As(alias) when the alias option is set, else l.expression()
aliasedIfSet(e, alias) ==
    IF e = Panic THEN Panic ELSE IF alias # "" THEN XAs(e, alias) ELSE e

\* The type tests of handleAny, in the order of the code.
resolveValue(a, alias) ==
    CASE a.g = "SQLBuilder" -> mainSelect(a)
      [] a.g = "Field" -> Field_expression(a)
      [] a.g = "BoolOp" -> BoolOp_expression(a)
      [] a.g = "WhereGroup" -> WhereGroup_expression(a)
      [] a.g = "RangeOp" -> RangeOp_expression(a)
      [] a.g = "Literal" -> aliasedIfSet(Literal_expression(a), alias)
      [] a.g = "Case" -> aliasedIfSet(Case_expression(a), alias)
      [] a.g = "Coalesce" -> aliasedIfSet(Coalesce_expression(a), alias)
      [] a.g = "goqu" -> a.e
      [] a.g = "slice" -> sliceLiteral(a)
      [] OTHER -> XV(a)

handleAny(a, options) ==
    IF a = GNil THEN XL("NULL", <<>>)
    ELSE IF \E i \in 1..Len(options) : options[i] = NilOption THEN Panic
    ELSE IF a.g = "nilptr" THEN XL("NULL", <<>>)
    ELSE resolveValue(pointee(a), aliasOf(options))

Field_expression(f) ==
    IF f.Exp # GNil
    THEN LET opt == IF aliased(f) THEN withAlias(f.FieldAlias)
                    ELSE IF f.Name # "" THEN withAlias(f.Name)
                    ELSE NilOption
         IN handleAny(f.Exp, <<opt>>)
    ELSE IF aliased(f) THEN XAs(identifierExpression(f), f.FieldAlias)
    ELSE identifierExpression(f)

\* The comparison built from the resolved right-hand side.
BoolOp_compiled(bo, rhs) ==
    IF rhs = Panic THEN Panic
    ELSE XBool(bo.Op, XIdent(bo.TableAlias, bo.FieldName), rhs)

\* BoolOp.expression with the default branch comparing for equality.
BoolOp_expression_defaultEq(bo) ==
    BoolOp_compiled([bo EXCEPT !.Op = IF bo.Op \in BoolOps THEN bo.Op ELSE "EqOp"],
                    handleAny(bo.Value, <<>>))

BoolOp_expression(bo) ==
    IF bo.Op \in BoolOps
    THEN BoolOp_compiled(bo, handleAny(bo.Value, <<>>))
    ELSE XNil

\* The range built from the resolved bounds.
RangeOp_compiled(ro, start, end) ==
    IF Unwinds(<<start, end>>) THEN Panic
    ELSE XRange(IF ro.Op = "NotBetweenOp" THEN "NotBetweenOp" ELSE "BetweenOp",
                XIdent(ro.TableAlias, ro.FieldName), start, end)

RangeOp_expression(ro) ==
    RangeOp_compiled(ro, handleAny(ro.Start, <<>>), handleAny(ro.End, <<>>))

\* `if expr != nil { exps = append(exps, expr) }` over the results, in order.
RECURSIVE appendNonNil(_)
appendNonNil(q) ==
    IF q = <<>> THEN <<>>
    ELSE (IF Head(q) # XNil THEN <<Head(q)>> ELSE <<>>) \o appendNonNil(Tail(q))

\* The type switch of WhereGroup.expression and Relation.join: BoolOp, RangeOp and
\* WhereGroup values have a compiler, every other child leaves expr nil.
conditionExpression(v) ==
    CASE v.g = "BoolOp" -> BoolOp_expression(v)
      [] v.g = "RangeOp" -> RangeOp_expression(v)
      [] v.g = "WhereGroup" -> WhereGroup_expression(v)
      [] OTHER -> XNil

\* The group built from the children's results with every result kept.
WhereGroup_listAll(wg, all) ==
    IF Unwinds(all) THEN Panic
    ELSE XList(IF wg.Op = "OrType" THEN "OrType" ELSE "AndType", all)

WhereGroup_expression_keepAbsent(wg) ==
    WhereGroup_listAll(wg,
        [i \in 1..Len(wg.Conditions) |-> conditionExpression(wg.Conditions[i])])

\* WhereGroup.expression returning the only kept result itself.
WhereGroup_list_unwrapSingle(wg, all) ==
    LET exps == appendNonNil(all)
    IN IF Unwinds(all) THEN Panic
       ELSE IF Len(exps) = 0 THEN XNil
       ELSE IF Len(exps) = 1 THEN exps[1]
       ELSE XList(IF wg.Op = "OrType" THEN "OrType" ELSE "AndType", exps)

\* The group built from the children's results, in order.
WhereGroup_list(wg, all) ==
    LET exps == appendNonNil(all)
    IN IF Unwinds(all) THEN Panic
       ELSE IF Len(exps) = 0 THEN XNil
       ELSE XList(IF wg.Op = "OrType" THEN "OrType" ELSE "AndType", exps)

WhereGroup_expression(wg) ==
    WhereGroup_list(wg,
        [i \in 1..Len(wg.Conditions) |-> conditionExpression(wg.Conditions[i])])

\* goqu.L(l.Value, argContainer...)
Literal_compiled(l, argContainer) ==
    IF Unwinds(argContainer) THEN Panic ELSE XL(l.Value, argContainer)

Literal_expression(l) ==
    Literal_compiled(l, [i \in 1..Len(l.Args) |-> handleAny(l.Args[i], <<>>)])

\* The CASE built from the resolved arms and the resolved else.
Case_compiled(c, whens, else) ==
    IF (\E i \in 1..Len(whens) : Unwinds(whens[i])) \/ else = Panic THEN Panic
    ELSE XCase(whens, c.Else # GNil, else)

Case_expression(c) ==
    Case_compiled(c,
        [i \in 1..Len(c.Conditions) |->
            <<handleAny(c.Conditions[i].When, <<>>),
              handleAny(c.Conditions[i].Then, <<>>)>>],
        IF c.Else # GNil THEN handleAny(c.Else, <<>>) ELSE XNil)

\* goqu.COALESCE(fields...)
Coalesce_compiled(all) == IF Unwinds(all) THEN Panic ELSE XFunc("COALESCE", all)

Coalesce_expression(co) ==
    Coalesce_compiled(
        [i \in 1..Len(co.Fields) |-> Field_expression(co.Fields[i])]
        \o (IF co.DefaultValue # GNil
            THEN <<handleAny(co.DefaultValue, <<>>)>>
            ELSE <<>>))

Sort_expression(s) ==
    XOrder(XIdent(s.TableAlias, s.Name),
           IF s.Order = "DescSortDir" THEN "DescSortDir" ELSE "AscDir")

\* One ON entry of Relation.join.  A value that implements Condition (a BoolOp,
\* RangeOp or WhereGroup, or a pointer to one) is compiled and appended even
\* when it compiles to nil; calling toExpression through a nil pointer panics;
\* anything else matches no case and is skipped.
onExpression(on) ==
    CASE on.g \in {"BoolOp", "RangeOp", "WhereGroup"} -> <<conditionExpression(on)>>
      [] on.g = "ptr" /\ on.p.g \in {"BoolOp", "RangeOp", "WhereGroup"} ->
             <<conditionExpression(on.p)>>
      [] on.g = "nilptr" -> <<Panic>>
      [] OTHER -> <<>>

RECURSIVE onConds(_)
onConds(ons) == IF ons = <<>> THEN <<>> ELSE onExpression(Head(ons)) \o onConds(Tail(ons))

\* `for _, rel := range relations { ds = rel.join(ds) }`
joinAll(relations, ds) ==
    IF relations = <<>> THEN ds
    ELSE joinAll(Tail(relations), Relation_join(Head(relations), ds))

\* The join of one relation once its ON conditions are compiled, followed by
\* the joins of the relations nested under its table.
Relation_joined(r, ds, conds) ==
    LET type == IF r.JoinType \in {"InnerJoinType", "LeftJoinType", "RightJoinType"}
                THEN r.JoinType ELSE "Join"
    IN IF ds = Panic \/ Unwinds(conds) THEN Panic
       ELSE joinAll(r.Table.Relations,
                [ds EXCEPT !.joins =
                    Append(@, XJoin(type, XTable(r.Table.Name, r.Table.Alias), conds))])

Relation_join(r, ds) == Relation_joined(r, ds, onConds(r.On))

\* One entry of the GROUP BY list built by mainSelect.
groupField(f) ==
    IF f.Name # ""
    THEN IF f.TableAlias # "" THEN identifierExpression(f) ELSE GStr(f.Name)
    ELSE IF aliased(f) THEN GStr(f.FieldAlias)
    ELSE GNil

\* The dataset of mainSelect once the joins, the select list and the where
\* list are compiled.
mainSelect_dataset(b, ds, selects, expressions) ==
    LET orders == [i \in 1..Len(b.Sorts) |-> Sort_expression(b.Sorts[i])]
        groupFields == [i \in 1..Len(b.GroupBy) |-> groupField(b.GroupBy[i])]
    IN IF ds = Panic \/ Unwinds(selects) \/ Unwinds(expressions) THEN Panic
       ELSE [ds EXCEPT !.selects = selects, !.wheres = expressions,
                       !.order = orders, !.groupBy = groupFields]

\* mainSelect carrying the limit and the offset of the builder.
mainSelect_limited(b) ==
    mainSelect_dataset(b,
        joinAll(b.Table.Relations,
                [XSelect(b.Dialect, XTable(b.Table.Name, b.Table.Alias),
                         <<>>, <<>>, <<>>, <<>>, <<>>)
                 EXCEPT !.limit = b.limit, !.offset = b.offset]),
        [i \in 1..Len(b.Fields) |-> Field_expression(b.Fields[i])],
        [i \in 1..Len(b.Wheres) |-> handleAny(b.Wheres[i], <<>>)])

mainSelect(b) ==
    mainSelect_dataset(b,
        joinAll(b.Table.Relations,
                XSelect(b.Dialect, XTable(b.Table.Name, b.Table.Alias),
                        <<>>, <<>>, <<>>, <<>>, <<>>)),
        [i \in 1..Len(b.Fields) |-> Field_expression(b.Fields[i])],
        [i \in 1..Len(b.Wheres) |-> handleAny(b.Wheres[i], <<>>)])

(***************************************************************************)
(* The resolver's specification: a value and an option list are drawn and  *)
(* handed to handleAny.                                                    *)
(***************************************************************************)
Scalars == {GStr("admin"), GNum(18)}
Slices ==
    {GNilSlice, GSlice(<<>>), GSlice(<<GNum(1), GNum(2)>>), GSlice(<<GNum(2), GNum(1)>>)}
PlainFields ==
    {Field("amount", t, a, GNil) : t \in {"", "o"}, a \in {"", "total"}}
countLiteral == Literal("COUNT(*)", <<>>)
eqBoolOp == BoolOp("EqOp", "role", "u", GStr("admin"))
badOpBoolOp == BoolOp(UnknownBoolOp, "role", "u", GStr("admin"))
betweenOp == RangeOp("BetweenOp", "age", "u", GNum(1), GNum(9))
labelCase == Case(<<WhenThen(eqBoolOp, GStr("A"))>>, GStr("B"))
nameCoalesce == Coalesce(<<Field("nickname", "u", "", GNil)>>, GStr("N/A"))
\* A Field that carries an inner expression and has neither fieldAlias nor name.
unnamedExpField == Field("", "", "", countLiteral)
subQuery ==
    SQLBuilder("postgres", <<Field("id", "o", "", GNil)>>, Table("orders", "o", <<>>),
               <<eqBoolOp>>, <<>>, <<>>, 10, 0)
\* Nested builders that differ only in limit and offset, without and with
\* joins, sorts and a GROUP BY list.
joinedSubQuery ==
    SQLBuilder("postgres", <<Field("user_id", "o", "", GNil)>>,
               Table("orders", "o",
                     <<Relation("LeftJoinType",
                                <<BoolOp("EqOp", "order_id", "i", Field("id", "o", "", GNil))>>,
                                Table("items", "i", <<>>))>>),
               <<betweenOp>>, <<Sort("id", "o", "DescSortDir")>>,
               <<Field("user_id", "o", "", GNil)>>, 10, 0)
Paged(b) == {[b EXCEPT !.limit = l, !.offset = o] : l \in {0, 5, 10}, o \in {0, 3}}
SubQueries == Paged(subQuery) \cup Paged(joinedSubQuery)
SubQueryBoolOps ==
    {BoolOp("InOp", "id", "u", v) : v \in SubQueries \cup {GPtr(q) : q \in SubQueries}}

BoolOpValues ==
    Scalars \cup Slices \cup {GNil, Field("owner", "o", "", GNil), unnamedExpField}
BoolOpInputs ==
    {BoolOp(op, "status", "u", v) : op \in BoolOps \cup {UnknownBoolOp}, v \in BoolOpValues}
RangeOpInputs ==
    {RangeOp(op, "age", "u", GNum(1), e) :
        op \in {"BetweenOp", "NotBetweenOp"}, e \in {GNum(9), GNil, unnamedExpField}}
InnerExpressions ==
    {countLiteral, labelCase, nameCoalesce, eqBoolOp, Field("amount", "o", "", GNil),
     GStr("admin"), GPtr(countLiteral), GExpr(XL("NOW()", <<>>)), subQuery}
ExpFields ==
    {Field(n, "", a, e) : n \in {"", "amount"}, a \in {"", "total"}, e \in InnerExpressions}
LiteralInputs ==
    {countLiteral, Literal("SUM(?)", <<Field("amount", "o", "", GNil)>>),
     Literal("? + ?", <<GNum(1), GNil>>), Literal("ABS(?)", <<unnamedExpField>>)}
CaseInputs ==
    {labelCase, Case(<<>>, GNil), Case(<<WhenThen(eqBoolOp, GStr("A"))>>, GNil),
     Case(<<WhenThen(betweenOp, GNum(1)), WhenThen(eqBoolOp, unnamedExpField)>>, GNil)}
CoalesceInputs ==
    {nameCoalesce, Coalesce(<<>>, countLiteral),
     Coalesce(<<Field("a", "", "", GNil), Field("b", "", "", GNil)>>, GNil),
     Coalesce(<<unnamedExpField>>, GNil)}

\* The longest list of children drawn for a group.
MaxChildren == 2
emptyGroup == WhereGroup("AndType", <<>>)
\* A value of exp.ExpressionListType that is neither AndType nor OrType.
UnknownListType == "ExpressionListType(7)"
Children ==
    {eqBoolOp, badOpBoolOp, betweenOp, emptyGroup, GStr("x"), GPtr(eqBoolOp),
     Field("amount", "o", "", GNil), GNil}
ChildLists == UNION {[1..n -> Children] : n \in 0..MaxChildren}
FlatGroups ==
    {WhereGroup(op, cs) : op \in {"AndType", "OrType", UnknownListType}, cs \in ChildLists}
NestedGroups ==
    {WhereGroup(op, <<WhereGroup(inner, <<c>>), d>>) :
        op \in {"AndType", "OrType"}, inner \in {"AndType", "OrType"},
        c \in {eqBoolOp, badOpBoolOp, emptyGroup,
               WhereGroup("OrType", <<betweenOp, eqBoolOp>>)},
        d \in {betweenOp, emptyGroup, GStr("x")}}
    \cup {WhereGroup("OrType", <<BoolOp("EqOp", "total", "", unnamedExpField)>>)}
GroupInputs == FlatGroups \cup NestedGroups

TypedInputs ==
    PlainFields \cup ExpFields \cup BoolOpInputs \cup RangeOpInputs \cup GroupInputs
    \cup LiteralInputs \cup CaseInputs \cup CoalesceInputs \cup SubQueries
    \cup SubQueryBoolOps
UntypedInputs ==
    Scalars \cup Slices \cup {GNil, GNilPtr, GMap([k \in {"a"} |-> GNum(1)]),
                              GExpr(XL("NOW()", <<>>)), GExpr(XIdent("u", "id"))}
PointerInputs ==
    {GPtr(v) : v \in PlainFields \cup LiteralInputs \cup CaseInputs \cup CoalesceInputs
                     \cup Scalars \cup Slices \cup NestedGroups
                     \cup SubQueries
                     \cup {eqBoolOp, betweenOp, unnamedExpField,
                           GPtr(eqBoolOp), GPtr(countLiteral), GNilPtr,
                           GPtr(GNilPtr), GNil, GExpr(XL("NOW()", <<>>))}}
Inputs == TypedInputs \cup UntypedInputs \cup PointerInputs
OptionLists == {<<>>, <<withAlias("")>>, <<withAlias("t")>>, <<withAlias("t"), withAlias("n")>>}

InitResolve ==
    /\ arg \in Inputs
    /\ opts \in OptionLists
    /\ out = NotRun
    /\ qb = NotRun /\ ret = NotRun /\ restored = NotRun
    /\ doc = NotRun /\ cond = NotRun /\ expr = NotRun
    /\ val = NotRun /\ wire = NotRun /\ back = NotRun
    /\ passed = NotRun /\ viaYAML = NotRun /\ text = NotRun /\ parsed = NotRun

\* handleAny(arg, opts...)
Resolve ==
    /\ arg # NotRun /\ out = NotRun
    /\ out' = handleAny(arg, opts)
    /\ UNCHANGED <<qb, ret, restored, doc, cond, expr, val, wire, back, arg, opts,
                   passed, viaYAML, text, parsed>>

NextResolve == Resolve

SpecResolve == InitResolve /\ [][NextResolve]_vars

(***************************************************************************)
(* Claims about the resolver (SpecResolve).                                *)
(***************************************************************************)
TypedKinds ==
    {"SQLBuilder", "Field", "BoolOp", "WhereGroup", "RangeOp", "Literal", "Case", "Coalesce"}
NullLiteral == XL("NULL", <<>>)
\* The value the type tests see: the argument, or what a pointer argument points to.
Target == IF arg.g = "ptr" THEN arg.p ELSE arg
\* The alias the option list sets.
Alias == IF opts = <<>> THEN "" ELSE opts[Len(opts)].alias
Wrapped(e) == IF e = Panic \/ Alias = "" THEN e ELSE XAs(e, Alias)

\* C7: handleAny dispatches in the order nil -> NULL, pointer -> dereference
\* (nil pointer -> NULL), SQLBuilder -> sub-select, Field, BoolOp, WhereGroup,
\* RangeOp -> their own compilation, Literal, Case, Coalesce -> their own
\* compilation wrapped with the alias iff the alias is non-empty, a backend
\* expression -> unchanged, a slice -> sequence literal, anything else -> one
\* bound scalar; a typed node or sub-query is never bound as a scalar, and the
\* alias changes the result of no other kind of input.
C7_DispatchOrder ==
    out # NotRun =>
        /\ arg = GNil => out = NullLiteral
        /\ arg = GNilPtr => out = NullLiteral
        /\ arg \notin {GNil, GNilPtr} =>
              /\ Target.g = "SQLBuilder" => out = mainSelect(Target)
              /\ Target.g = "Field" => out = Field_expression(Target)
              /\ Target.g = "BoolOp" => out = BoolOp_expression(Target)
              /\ Target.g = "WhereGroup" => out = WhereGroup_expression(Target)
              /\ Target.g = "RangeOp" => out = RangeOp_expression(Target)
              /\ Target.g = "Literal" => out = Wrapped(Literal_expression(Target))
              /\ Target.g = "Case" => out = Wrapped(Case_expression(Target))
              /\ Target.g = "Coalesce" => out = Wrapped(Coalesce_expression(Target))
              /\ Target.g = "goqu" => out = Target.e
              /\ Target.g = "slice" =>
                    /\ out.x \in {"L", "V"}
                    /\ out.x = "V" => out.v = Target
              /\ Target.g \notin TypedKinds \cup {"goqu", "slice"} => out = XV(Target)
              /\ Target.g \in TypedKinds => out # XV(Target) /\ out # XV(arg)
              /\ Target.g \notin {"Literal", "Case", "Coalesce"} =>
                    out = handleAny(arg, <<>>)

\* C7's case: a pointer to a Literal resolved with a non-empty alias, and so
\* compiled as the Literal and wrapped with the alias.
C7_Witness ==
    /\ out # NotRun
    /\ arg.g = "ptr" /\ arg.p.g = "Literal" /\ Alias = "n"
    /\ out.x = "As" /\ out.alias = "n" /\ out.e.x = "L"

\* C8 as stated: resolution always returns an expression and never panics.
C8_NeverPanics == out # NotRun => out # Panic

ConditionKinds == {"BoolOp", "RangeOp", "WhereGroup"}
\* The children of a group that have a compiler and compile to something, by index.
KeptChildren(wg) ==
    {i \in 1..Len(wg.Conditions) :
        /\ wg.Conditions[i].g \in ConditionKinds
        /\ conditionExpression(wg.Conditions[i]) # XNil}
\* A child whose compilation panics unwinds the compilation of the group.
ChildPanics(wg) ==
    \E i \in 1..Len(wg.Conditions) :
        /\ wg.Conditions[i].g \in ConditionKinds
        /\ conditionExpression(wg.Conditions[i]) = Panic
\* No And/Or list inside e, at any depth, is empty or holds an absent expression.
RECURSIVE NoEmptyList(_)
NoEmptyList(e) ==
    e.x = "List" =>
        /\ Len(e.exps) > 0
        /\ \A i \in 1..Len(e.exps) : e.exps[i] # XNil /\ NoEmptyList(e.exps[i])

\* C10: a WhereGroup compiles its BoolOp, RangeOp and WhereGroup children in
\* order and keeps the non-absent results; every other child and every child
\* compiling to nothing is skipped; the kept results are combined with Or when
\* the group's operator is Or and with And otherwise; with nothing kept the group
\* compiles to the absent expression, never to an empty list, at any depth.
C10_WhereGroupCompilation ==
    (out # NotRun /\ arg.g = "WhereGroup") =>
        LET kept == KeptChildren(arg)
        IN IF ChildPanics(arg) THEN out = Panic
           ELSE IF kept = {} THEN out = XNil
           ELSE /\ out.x = "List"
                /\ out.type = (IF arg.Op = "OrType" THEN "OrType" ELSE "AndType")
                /\ Len(out.exps) = Cardinality(kept)
                /\ \A i \in kept :
                      out.exps[Cardinality({k \in kept : k <= i})] =
                          conditionExpression(arg.Conditions[i])
                /\ NoEmptyList(out)

\* C10's case: a nested group whose inner group compiles to nothing and whose
\* other child is kept, so the outer group holds exactly that one child.
C10_Witness ==
    /\ out # NotRun /\ arg.g = "WhereGroup" /\ Len(arg.Conditions) = 2
    /\ arg.Conditions[1].g = "WhereGroup" /\ Len(arg.Conditions[1].Conditions) = 1
    /\ conditionExpression(arg.Conditions[1]) = XNil
    /\ arg.Conditions[2].g = "RangeOp"
    /\ out.x = "List" /\ Len(out.exps) = 1 /\ out.exps[1].x = "Range"

\* The groups C11 is about: an And or Or group of which exactly one child
\* resolves to an expression, no child panicking.
OneResolvableChild ==
    /\ out # NotRun /\ arg.g = "WhereGroup" /\ arg.Op \in {"AndType", "OrType"}
    /\ ~ChildPanics(arg)
    /\ Cardinality(KeptChildren(arg)) = 1
\* What that child compiles to alone.
OnlyChildAlone ==
    conditionExpression(arg.Conditions[CHOOSE i \in KeptChildren(arg) : TRUE])

Member(k, v) == << <<k, v>> >>
OmitEmpty(k, empty, v) == IF empty THEN <<>> ELSE << <<k, v>> >>
\* A string member.
StrMember(k, s) == Member(k, JStr(s))
OmitEmptyStr(k, s) == OmitEmpty(k, s = "", JStr(s))

\* The keys of a map value in some order (json.Marshal sorts them; the decoders
\* look members up by key, so the order is not observable).
RECURSIVE KeySeq(_)
KeySeq(ks) ==
    IF ks = {} THEN <<>>
    ELSE LET k == CHOOSE x \in ks : TRUE IN <<k>> \o KeySeq(ks \ {k})

RECURSIVE Marshal(_)
\* A slice member without omitempty: null for the nil slice.
MarshalList(q) == IF q = <<>> THEN JNull ELSE JArr([i \in 1..Len(q) |-> Marshal(q[i])])

Field_Marshal(f) ==
    JObj(OmitEmptyStr("name", f.Name) \o OmitEmptyStr("tableAlias", f.TableAlias)
         \o OmitEmptyStr("fieldAlias", f.FieldAlias)
         \o OmitEmpty("exp", f.Exp = GNil, Marshal(f.Exp)))
Literal_Marshal(l) ==
    JObj(StrMember("value", l.Value) \o OmitEmpty("args", l.Args = <<>>, MarshalList(l.Args)))
WhenThen_Marshal(wt) ==
    JObj(Member("when", Marshal(wt.When)) \o Member("then", Marshal(wt.Then)))
Case_Marshal(c) ==
    JObj(Member("conditions", MarshalList(c.Conditions))
         \o OmitEmpty("else", c.Else = GNil, Marshal(c.Else)))
Coalesce_Marshal(co) ==
    JObj(Member("fields", MarshalList(co.Fields))
         \o OmitEmpty("defaultValue", co.DefaultValue = GNil, Marshal(co.DefaultValue)))
BoolOp_MarshalJSON(bo) ==
    JObj(StrMember("op", boolOpToString(bo.Op)) \o StrMember("fieldName", bo.FieldName)
         \o OmitEmptyStr("tableAlias", bo.TableAlias)
         \o Member("value", Marshal(bo.Value)))
RangeOp_MarshalJSON(ro) ==
    JObj(StrMember("op", rangeOpToString(ro.Op)) \o StrMember("fieldName", ro.FieldName)
         \o OmitEmptyStr("tableAlias", ro.TableAlias)
         \o Member("start", Marshal(ro.Start)) \o Member("end", Marshal(ro.End)))
WhereGroup_MarshalJSON(wg) ==
    JObj(StrMember("op", expressionListTypeToString(wg.Op))
         \o Member("conditions", MarshalList(wg.Conditions)))
Sort_MarshalJSON(s) ==
    JObj(StrMember("name", s.Name) \o OmitEmptyStr("tableAlias", s.TableAlias)
         \o StrMember("order", sortDirectionToString(s.Order)))
Table_Marshal(t) ==
    JObj(StrMember("name", t.Name) \o StrMember("alias", t.Alias)
         \o OmitEmpty("relations", t.Relations = <<>>, MarshalList(t.Relations)))
Relation_MarshalJSON(r) ==
    JObj(StrMember("joinType", joinTypeToString(r.JoinType))
         \o OmitEmpty("on", r.On = <<>>, MarshalList(r.On))
         \o Member("table", Table_Marshal(r.Table)))
\* limit and offset are unexported and are not written.
\* A marshaller that writes the limit and the offset as members.
SQLBuilder_Marshal_withLimit(b) ==
    JObj(StrMember("dialect", b.Dialect)
         \o Member("table", Table_Marshal(b.Table))
         \o Member("limit", JNum(b.limit)) \o Member("offset", JNum(b.offset)))

SQLBuilder_Marshal(b) ==
    JObj(StrMember("dialect", b.Dialect)
         \o OmitEmpty("fields", b.Fields = <<>>, MarshalList(b.Fields))
         \o Member("table", Table_Marshal(b.Table))
         \o OmitEmpty("wheres", b.Wheres = <<>>, MarshalList(b.Wheres))
         \o OmitEmpty("sorts", b.Sorts = <<>>, MarshalList(b.Sorts))
         \o OmitEmpty("groupBy", b.GroupBy = <<>>, MarshalList(b.GroupBy)))

Marshal(v) ==
    CASE v.g = "nil" -> JNull
      [] v.g = "nilptr" -> JNull
      [] v.g = "ptr" -> Marshal(v.p)
      [] v.g = "string" -> JStr(v.s)
      [] v.g = "number" -> JNum(v.n)
      [] v.g = "slice" ->
             IF v.isNil THEN JNull ELSE JArr([i \in 1..Len(v.e) |-> Marshal(v.e[i])])
      [] v.g = "map" ->
             LET ks == KeySeq(DOMAIN v.m)
             IN JObj([i \in 1..Len(ks) |-> <<ks[i], Marshal(v.m[ks[i]])>>])
      [] v.g = "Field" -> Field_Marshal(v)
      [] v.g = "Literal" -> Literal_Marshal(v)
      [] v.g = "WhenThen" -> WhenThen_Marshal(v)
      [] v.g = "Case" -> Case_Marshal(v)
      [] v.g = "Coalesce" -> Coalesce_Marshal(v)
      [] v.g = "BoolOp" -> BoolOp_MarshalJSON(v)
      [] v.g = "RangeOp" -> RangeOp_MarshalJSON(v)
      [] v.g = "WhereGroup" -> WhereGroup_MarshalJSON(v)
      [] v.g = "Sort" -> Sort_MarshalJSON(v)
      [] v.g = "Table" -> Table_Marshal(v)
      [] v.g = "Relation" -> Relation_MarshalJSON(v)
      [] v.g = "SQLBuilder" -> SQLBuilder_Marshal(v)

(***************************************************************************)
(* The round trip's specification: a node is drawn, encoded with           *)
(* json.Marshal and decoded again into a variable of its type.             *)
(***************************************************************************)
ownerField == Field("owner", "o", "", GNil)
RoundTripValues ==
    {GStr("admin"), GNum(18), GNil, ownerField, GSlice(<<GNum(1), GNum(2)>>), countLiteral}
RoundTripBoolOps ==
    {BoolOp(op, "status", t, v) : op \in BoolOps, t \in {"", "u"}, v \in RoundTripValues}
RoundTripRangeOps ==
    {RangeOp(op, "age", "u", GNum(1), e) :
        op \in {"BetweenOp", "NotBetweenOp"}, e \in {GNum(9), ownerField}}
RoundTripGroups ==
    {WhereGroup(op, cs) :
        op \in {"AndType", "OrType"},
        cs \in {<<>>, <<eqBoolOp>>, <<eqBoolOp, betweenOp>>,
                <<WhereGroup("OrType", <<betweenOp, eqBoolOp>>), eqBoolOp>>}}
RoundTripFields ==
    PlainFields
    \cup {Field(n, "", a, e) :
             n \in {"", "amount"}, a \in {"", "total"},
             e \in {countLiteral, labelCase, nameCoalesce, eqBoolOp, ownerField,
                    Field("", "", "total", countLiteral), Case(<<>>, GStr("B"))}}
RoundTripLiterals ==
    {countLiteral, Literal("SUM(?)", <<ownerField>>), Literal("? + ?", <<GNum(1), GStr("x")>>)}
RoundTripCases ==
    {labelCase, Case(<<>>, GNil), Case(<<>>, GStr("B")),
     Case(<<WhenThen(betweenOp, GNum(1)), WhenThen(eqBoolOp, ownerField)>>, GNil)}
RoundTripCoalesces ==
    {nameCoalesce, Coalesce(<<ownerField>>, GNil), Coalesce(<<ownerField>>, countLiteral),
     Coalesce(<<ownerField>>, ownerField)}
RoundTripInputs ==
    RoundTripBoolOps \cup RoundTripRangeOps \cup RoundTripGroups \cup RoundTripFields
    \cup RoundTripLiterals \cup RoundTripCases \cup RoundTripCoalesces

InitRoundTrip ==
    /\ val \in RoundTripInputs
    /\ wire = NotRun /\ back = NotRun
    /\ qb = NotRun /\ ret = NotRun /\ restored = NotRun
    /\ doc = NotRun /\ cond = NotRun /\ expr = NotRun
    /\ arg = NotRun /\ opts = NotRun /\ out = NotRun
    /\ passed = NotRun /\ viaYAML = NotRun /\ text = NotRun /\ parsed = NotRun

\* json.Marshal(val)
Encode ==
    /\ val # NotRun /\ wire = NotRun
    /\ wire' = Marshal(val)
    /\ UNCHANGED <<qb, ret, restored, doc, cond, expr, val, back, arg, opts, out,
                   passed, viaYAML, text, parsed>>

\* json.Unmarshal(wire, &x) with x a variable of the type of val: the type's own
\* UnmarshalJSON, which decodes the nested positions with the sniffing decoders.
UnmarshalAs(type, data) ==
    CASE type = "BoolOp" -> BoolOp_UnmarshalJSON(data)
      [] type = "RangeOp" -> RangeOp_UnmarshalJSON(data)
      [] type = "WhereGroup" -> WhereGroup_UnmarshalJSON(data)
      [] type = "Field" -> Field_UnmarshalJSON(data)
      [] type = "Literal" -> Literal_UnmarshalJSON(data)
      [] type = "Case" -> Case_UnmarshalJSON(data)
      [] type = "Coalesce" -> Coalesce_Unmarshal(data)

Decode ==
    /\ wire # NotRun /\ back = NotRun
    /\ back' = UnmarshalAs(val.g, wire)
    /\ UNCHANGED <<qb, ret, restored, doc, cond, expr, val, wire, arg, opts, out,
                   passed, viaYAML, text, parsed>>

NextRoundTrip == Encode \/ Decode

SpecRoundTrip == InitRoundTrip /\ [][NextRoundTrip]_vars

\* C5 as stated: decoding the encoding of any expression or condition succeeds
\* and gives back the same value.
C5_RoundTrip == back # NotRun => back = val

(***************************************************************************)
(* The builder: New and the methods of SQLBuilder.  A method that returns  *)
(* the builder is an operator from descriptor to descriptor; a method that *)
(* generates a query is an operator from descriptor to its result.         *)
(***************************************************************************)
DefaultLimit == 10

New(dialect, tableName, tableAlias) ==
    SQLBuilder(dialect, <<>>, Table(tableName, tableAlias, <<>>), <<>>, <<>>, <<>>,
               DefaultLimit, 0)
\* WithFields assigning its arguments instead of appending them.
WithFields_assign(b, fields) == [b EXCEPT !.Fields = fields]

WithFields(b, fields) == [b EXCEPT !.Fields = @ \o fields]
\* Where that also forgets the sorts.
Where_clearSorts(b, conditions) == [b EXCEPT !.Wheres = @ \o conditions, !.Sorts = <<>>]

Where(b, conditions) == [b EXCEPT !.Wheres = @ \o conditions]
OrderBy(b, sorts) == [b EXCEPT !.Sorts = @ \o sorts]
GroupByFields(b, fields) == [b EXCEPT !.GroupBy = @ \o fields]
Join(b, joinType, table, on) ==
    [b EXCEPT !.Table.Relations = Append(@, Relation(joinType, on, table))]
InnerJoin(b, tableName, tableAlias, on) ==
    Join(b, "InnerJoinType", Table(tableName, tableAlias, <<>>), on)
LeftJoin(b, tableName, tableAlias, on) ==
    Join(b, "LeftJoinType", Table(tableName, tableAlias, <<>>), on)
RightJoin(b, tableName, tableAlias, on) ==
    Join(b, "RightJoinType", Table(tableName, tableAlias, <<>>), on)
\* Limit that also resets the offset.
Limit_resetOffset(b, limit) == [b EXCEPT !.limit = limit, !.offset = 0]

Limit(b, limit) == [b EXCEPT !.limit = limit]
Offset(b, offset) == [b EXCEPT !.offset = offset]

\* goqu.Insert(goqu.T(name)).WithDialect(dialect).Rows(goqu.Record(entry))
XInsert(dialect, table, entry) ==
    [x |-> "Insert", dialect |-> dialect, table |-> table, rows |-> <<entry>>,
     prepared |-> FALSE]
\* goqu.Update(goqu.T(name)).WithDialect(dialect).Where(...).Set(goqu.Record(entry))
XUpdate(dialect, table, wheres, entry) ==
    [x |-> "Update", dialect |-> dialect, table |-> table, wheres |-> wheres,
     set |-> entry, prepared |-> FALSE]
\* goqu.Delete(goqu.T(name)).WithDialect(dialect).Where(...)
XDelete(dialect, table, wheres) ==
    [x |-> "Delete", dialect |-> dialect, table |-> table, wheres |-> wheres,
     prepared |-> FALSE]
Prepared(ds) == [ds EXCEPT !.prepared = TRUE]

\* The (string, []any, error) a query method returns.
Result(sql, args, err) == [g |-> "result", sql |-> sql, args |-> args, err |-> err]
\* ds.ToSQL(): the text and the bound arguments goqu renders from the statement,
\* each kept as the statement it is rendered from.
ToSQL(ds) == Result([text |-> ds], [bound |-> ds], GNil)

ErrMissingWhereCondition ==
    ErrNew("WHERE condition is required for Edit and Delete operations")

\* applyLimitOffset adding the offset only under a limit.
applyLimitOffset_offsetUnderLimit(b, ds) ==
    IF b.limit > 0 THEN [ds EXCEPT !.limit = b.limit, !.offset = b.offset] ELSE ds

applyLimitOffset(b, ds) ==
    LET limited == IF b.limit > 0 THEN [ds EXCEPT !.limit = b.limit] ELSE ds
    IN IF b.offset > 0 THEN [limited EXCEPT !.offset = b.offset] ELSE limited

\* ds.Prepared(true).ToSQL() on the dataset of mainSelect with limit and offset
Select_rendered(b, ds) ==
    IF ds = Panic THEN Panic ELSE ToSQL(Prepared(applyLimitOffset(b, ds)))

Select(b) == Select_rendered(b, mainSelect(b))

\* ds.Select(goqu.COUNT(goqu.L("*"))).Prepared(true).ToSQL()
Count_rendered(b, ds) ==
    IF ds = Panic THEN Panic
    ELSE ToSQL([Prepared(applyLimitOffset(b, ds)) EXCEPT
                   !.selects = <<XFunc("COUNT", <<XL("*", <<>>)>>)>>])

Count(b) == Count_rendered(b, mainSelect(b))

Add(b, entry) == ToSQL(Prepared(XInsert(b.Dialect, b.Table.Name, entry)))

\* `expressions[i] = handleAny(w)` over the Wheres of the builder
whereExpressions(b) == [i \in 1..Len(b.Wheres) |-> handleAny(b.Wheres[i], <<>>)]

\* The UPDATE statement of Edit once the where list is compiled.
Edit_rendered(b, entry, expressions) ==
    IF Unwinds(expressions) THEN Panic
    ELSE ToSQL(Prepared(XUpdate(b.Dialect, b.Table.Name, expressions, entry)))

Edit_unguarded(b, entry) == Edit_rendered(b, entry, whereExpressions(b))

Edit(b, entry) ==
    IF Len(b.Wheres) = 0 THEN Result("", GNil, ErrMissingWhereCondition)
    ELSE Edit_rendered(b, entry, whereExpressions(b))

\* The DELETE statement of Delete once the where list is compiled.
Delete_rendered(b, expressions) ==
    IF Unwinds(expressions) THEN Panic
    ELSE ToSQL(Prepared(XDelete(b.Dialect, b.Table.Name, expressions)))

Delete(b) ==
    IF Len(b.Wheres) = 0 THEN Result("", GNil, ErrMissingWhereCondition)
    ELSE Delete_rendered(b, whereExpressions(b))

(***************************************************************************)
(* The builder's specification: a builder is created with New and its     *)
(* methods are called in any order.  ret holds the call made last and      *)
(* what it returned.                                                       *)
(***************************************************************************)
\* The most entries a descriptor grows to, over all its lists.
MaxEntries == 2
\* The limits and offsets passed to Limit and Offset.
LimitPool == {0, 5}
OffsetPool == {0, 3}

FieldPool == {Field("id", "u", "", GNil), Field("", "", "total", countLiteral)}
WherePool == {eqBoolOp, emptyGroup}
GroupPool == {Field("role", "u", "", GNil)}
SortPool == {Sort("name", "u", "DescSortDir")}
JoinPool ==
    {<<"LeftJoinType", Table("orders", "o", <<>>),
       <<BoolOp("EqOp", "user_id", "o", Field("id", "u", "", GNil))>> >>,
     <<"CrossJoinType", Table("tags", "t", <<>>), <<>> >>,
     <<"RightJoinType",
       Table("orders", "o",
             <<Relation("InnerJoinType",
                        <<BoolOp("EqOp", "order_id", "i", Field("id", "o", "", GNil))>>,
                        Table("items", "i", <<>>))>>),
       <<BoolOp("EqOp", "user_id", "o", Field("id", "u", "", GNil)),
         BoolOp("GtOp", "total", "o", GNum(18))>> >>}
EntryPool == {GMap([k \in {"name"} |-> GStr("bob")]), GMap([k \in {} |-> GNil])}

\* The entries a descriptor holds.
Entries(b) ==
    Len(b.Fields) + Len(b.Wheres) + Len(b.Sorts) + Len(b.GroupBy) + Len(b.Table.Relations)
\* Every argument list over pool that the descriptor still has room for.
ArgLists(pool) == UNION {[1..n -> pool] : n \in 0..(MaxEntries - Entries(qb))}

\* The arguments of InnerJoin, LeftJoin and RightJoin: table name, alias, ON list.
NamedJoinPool ==
    {<<"orders", "o", <<BoolOp("EqOp", "user_id", "o", Field("id", "u", "", GNil))>> >>}

\* What a chaining method returns: the builder it was called on.
TheBuilder == [g |-> "builder"]
Returned(call, result) == [call |-> call, result |-> result]

\* Nothing passed yet to any method.
NothingPassed ==
    [WithFields |-> <<>>, Where |-> <<>>, OrderBy |-> <<>>, GroupByFields |-> <<>>,
     Join |-> <<>>, Limit |-> <<>>, Offset |-> <<>>]

Init ==
    /\ qb = New("postgres", "users", "u")
    /\ ret = Returned("New", TheBuilder)
    /\ passed = NothingPassed
    /\ restored = NotRun
    /\ doc = NotRun /\ cond = NotRun /\ expr = NotRun
    /\ val = NotRun /\ wire = NotRun /\ back = NotRun
    /\ arg = NotRun /\ opts = NotRun /\ out = NotRun
    /\ viaYAML = NotRun /\ text = NotRun /\ parsed = NotRun

Rest == <<restored, doc, cond, expr, val, wire, back, arg, opts, out, viaYAML, text, parsed>>

CallWithFields ==
    \E fields \in ArgLists(FieldPool) :
        /\ qb' = WithFields(qb, fields)
        /\ ret' = Returned("WithFields", TheBuilder)
        /\ passed' = [passed EXCEPT !.WithFields = @ \o fields]
        /\ UNCHANGED Rest

CallWhere ==
    \E conditions \in ArgLists(WherePool) :
        /\ qb' = Where(qb, conditions)
        /\ ret' = Returned("Where", TheBuilder)
        /\ passed' = [passed EXCEPT !.Where = @ \o conditions]
        /\ UNCHANGED Rest

CallOrderBy ==
    \E sorts \in ArgLists(SortPool) :
        /\ qb' = OrderBy(qb, sorts)
        /\ ret' = Returned("OrderBy", TheBuilder)
        /\ passed' = [passed EXCEPT !.OrderBy = @ \o sorts]
        /\ UNCHANGED Rest

CallGroupByFields ==
    \E fields \in ArgLists(GroupPool) :
        /\ qb' = GroupByFields(qb, fields)
        /\ ret' = Returned("GroupByFields", TheBuilder)
        /\ passed' = [passed EXCEPT !.GroupByFields = @ \o fields]
        /\ UNCHANGED Rest

CallJoin ==
    \E j \in JoinPool :
        /\ Entries(qb) < MaxEntries
        /\ qb' = Join(qb, j[1], j[2], j[3])
        /\ ret' = Returned("Join", TheBuilder)
        /\ passed' = [passed EXCEPT !.Join = Append(@, j)]
        /\ UNCHANGED Rest

CallInnerJoin ==
    \E j \in NamedJoinPool :
        /\ Entries(qb) < MaxEntries
        /\ qb' = InnerJoin(qb, j[1], j[2], j[3])
        /\ ret' = Returned("InnerJoin", TheBuilder)
        /\ passed' = [passed EXCEPT !.Join =
                         Append(@, <<"InnerJoinType", Table(j[1], j[2], <<>>), j[3]>>)]
        /\ UNCHANGED Rest

CallLeftJoin ==
    \E j \in NamedJoinPool :
        /\ Entries(qb) < MaxEntries
        /\ qb' = LeftJoin(qb, j[1], j[2], j[3])
        /\ ret' = Returned("LeftJoin", TheBuilder)
        /\ passed' = [passed EXCEPT !.Join =
                         Append(@, <<"LeftJoinType", Table(j[1], j[2], <<>>), j[3]>>)]
        /\ UNCHANGED Rest

CallRightJoin ==
    \E j \in NamedJoinPool :
        /\ Entries(qb) < MaxEntries
        /\ qb' = RightJoin(qb, j[1], j[2], j[3])
        /\ ret' = Returned("RightJoin", TheBuilder)
        /\ passed' = [passed EXCEPT !.Join =
                         Append(@, <<"RightJoinType", Table(j[1], j[2], <<>>), j[3]>>)]
        /\ UNCHANGED Rest

\* Of Limit and Offset the last argument is kept.
CallLimit ==
    \E limit \in LimitPool :
        /\ qb' = Limit(qb, limit)
        /\ ret' = Returned("Limit", TheBuilder)
        /\ passed' = [passed EXCEPT !.Limit = <<limit>>]
        /\ UNCHANGED Rest

CallOffset ==
    \E offset \in OffsetPool :
        /\ qb' = Offset(qb, offset)
        /\ ret' = Returned("Offset", TheBuilder)
        /\ passed' = [passed EXCEPT !.Offset = <<offset>>]
        /\ UNCHANGED Rest

CallSelect == ret' = Returned("Select", Select(qb)) /\ UNCHANGED <<qb, passed, Rest>>
CallCount == ret' = Returned("Count", Count(qb)) /\ UNCHANGED <<qb, passed, Rest>>
CallAdd ==
    \E entry \in EntryPool :
        ret' = Returned("Add", Add(qb, entry)) /\ UNCHANGED <<qb, passed, Rest>>
CallEdit ==
    \E entry \in EntryPool :
        ret' = Returned("Edit", Edit(qb, entry)) /\ UNCHANGED <<qb, passed, Rest>>
CallDelete == ret' = Returned("Delete", Delete(qb)) /\ UNCHANGED <<qb, passed, Rest>>

Next ==
    \/ CallWithFields \/ CallWhere \/ CallOrderBy \/ CallGroupByFields
    \/ CallJoin \/ CallInnerJoin \/ CallLeftJoin \/ CallRightJoin
    \/ CallLimit \/ CallOffset
    \/ CallSelect \/ CallCount \/ CallAdd \/ CallEdit \/ CallDelete

Spec == Init /\ [][Next]_vars

(***************************************************************************)
(* Claims about the builder (Spec).                                        *)
(***************************************************************************)
\* C1: whenever the Wheres list of the builder is empty, Edit and Delete return
\* ErrMissingWhereCondition with an empty query text and nil arguments.
C1_MutationGuard ==
    (ret.call \in {"Edit", "Delete"} /\ qb.Wheres = <<>>) =>
        /\ ret.result # Panic
        /\ ret.result.err = ErrMissingWhereCondition
        /\ ret.result.sql = ""
        /\ ret.result.args = GNil

\* C1's case: Edit refused on a builder that has fields, a join and a limit but
\* no where condition.
C1_Witness ==
    /\ ret.call = "Edit" /\ qb.Wheres = <<>>
    /\ qb.Fields # <<>> /\ qb.Table.Relations # <<>> /\ qb.limit # DefaultLimit
    /\ ret.result.err = ErrMissingWhereCondition

ChainingCalls ==
    {"WithFields", "Where", "OrderBy", "GroupByFields", "Join", "InnerJoin", "LeftJoin",
     "RightJoin", "Limit", "Offset"}
\* The relations the Join calls so far are to have added, in call order.
JoinedSoFar ==
    [i \in 1..Len(passed.Join) |->
        Relation(passed.Join[i][1], passed.Join[i][3], passed.Join[i][2])]

\* C12: every chaining method returns the builder it was called on, and after
\* any sequence of calls Fields, Wheres, Sorts, GroupBy and Table.Relations are
\* each the concatenation, in call order and argument order, of everything
\* passed to the corresponding method: nothing removed, reordered or merged.
C12_Accumulation ==
    /\ ret.call \in ChainingCalls => ret.result = TheBuilder
    /\ qb.Fields = passed.WithFields
    /\ qb.Wheres = passed.Where
    /\ qb.Sorts = passed.OrderBy
    /\ qb.GroupBy = passed.GroupByFields
    /\ qb.Table.Relations = JoinedSoFar

\* C12's case: the same field passed twice and kept twice, in a builder that
\* went on to receive another call.
C12_Witness ==
    /\ Len(passed.WithFields) = 2 /\ passed.WithFields[1] = passed.WithFields[2]
    /\ Len(qb.Fields) = 2 /\ qb.Fields[1] = qb.Fields[2]
    /\ ret.call = "Limit" /\ ret.result = TheBuilder

\* A second builder that receives the same calls per method as qb, method by
\* method: Limit, Offset, the joins, Where, WithFields, GroupByFields, OrderBy.
RECURSIVE JoinEach(_, _)
JoinEach(b, js) ==
    IF js = <<>> THEN b
    ELSE JoinEach(Join(b, Head(js)[1], Head(js)[2], Head(js)[3]), Tail(js))
LimitIfCalled(b) == IF passed.Limit = <<>> THEN b ELSE Limit(b, passed.Limit[1])
OffsetIfCalled(b) == IF passed.Offset = <<>> THEN b ELSE Offset(b, passed.Offset[1])
MethodByMethod ==
    OrderBy(GroupByFields(WithFields(Where(
        JoinEach(OffsetIfCalled(LimitIfCalled(New(qb.Dialect, qb.Table.Name, qb.Table.Alias))),
                 passed.Join),
        passed.Where), passed.WithFields), passed.GroupByFields), passed.OrderBy)

\* C13: Select on a builder gives what Select gives on a builder created with
\* the same dialect and table that received the same calls per kind in another
\* interleaving of the kinds (here: kind by kind).
C13_OrderIndependence ==
    ret.call = "Select" => ret.result = Select(MethodByMethod)

\* C13's case: Select on a builder that received OrderBy, Where, Limit and
\* Offset calls, in any of their interleavings.
C13_Witness ==
    /\ ret.call = "Select" /\ ret.result # Panic
    /\ Len(passed.OrderBy) = 1 /\ Len(passed.Where) = 1 /\ passed.Limit = <<5>>
    /\ passed.Offset = <<3>>
    /\ ret.result.sql.text.limit = 5 /\ ret.result.sql.text.offset = 3

\* The LIMIT and OFFSET clauses of a rendered statement: the value of the
\* clause, or nothing when the statement has no such clause.
LimitClause(result) == IF result.sql.text.limit > 0 THEN <<result.sql.text.limit>> ELSE <<>>
OffsetClause(result) ==
    IF result.sql.text.offset > 0 THEN <<result.sql.text.offset>> ELSE <<>>

\* C14: a new builder has limit 10 and offset 0; the limit and the offset are
\* those of the last Limit and Offset call; Select and Count have a LIMIT clause
\* iff the limit is > 0 and an OFFSET clause iff the offset is > 0, with the
\* current values, so that Limit(0) leaves no LIMIT clause.
C14_LimitOffset ==
    /\ ret.call = "New" => qb.limit = 10 /\ qb.offset = 0
    /\ qb.limit = (IF passed.Limit = <<>> THEN 10 ELSE passed.Limit[1])
    /\ qb.offset = (IF passed.Offset = <<>> THEN 0 ELSE passed.Offset[1])
    /\ (ret.call \in {"Select", "Count"} /\ ret.result # Panic) =>
          /\ LimitClause(ret.result) = (IF qb.limit > 0 THEN <<qb.limit>> ELSE <<>>)
          /\ OffsetClause(ret.result) = (IF qb.offset > 0 THEN <<qb.offset>> ELSE <<>>)

\* C14's case: Count after Limit(0) and Offset(3): no LIMIT clause, OFFSET 3.
C14_Witness ==
    /\ ret.call = "Count" /\ ret.result # Panic
    /\ passed.Limit = <<0>> /\ passed.Offset = <<3>>
    /\ LimitClause(ret.result) = <<>> /\ OffsetClause(ret.result) = <<3>>

(***************************************************************************)
(* Decoding a descriptor: SQLBuilder.UnmarshalJSON and the decoders of the *)
(* table tree and of the sorts.  encoding/json visits the members in       *)
(* document order, which for a marshalled descriptor is the struct's order.*)
(***************************************************************************)
Sort_UnmarshalJSON(data) ==
    IF ~(StructOK(data) /\ StrOK(data, "name") /\ StrOK(data, "tableAlias")
         /\ StrOK(data, "order"))
    THEN ErrJSON
    ELSE Sort(StrOf(data, "name"), StrOf(data, "tableAlias"),
              stringToSortDirection(StrOf(data, "order")))

RECURSIVE Table_Unmarshal(_)
RECURSIVE Relation_UnmarshalJSON(_)

\* Table once every relation has been decoded.
Table_decoded(data, rs) ==
    LET bad == FirstError(rs)
    IN IF bad # 0 THEN rs[bad]
       ELSE Table(StrOf(data, "name"), StrOf(data, "alias"), rs)

\* Table has no UnmarshalJSON of its own: encoding/json fills the struct, each
\* relation through Relation.UnmarshalJSON.
Table_Unmarshal(data) ==
    IF ~(StructOK(data) /\ StrOK(data, "name") /\ StrOK(data, "alias")
         /\ ListOK(data, "relations"))
    THEN ErrJSON
    ELSE LET raws == ListOf(data, "relations")
         IN Table_decoded(data,
                [i \in 1..Len(raws) |-> Relation_UnmarshalJSON(raws[i])])

\* Relation.UnmarshalJSON once aux.Table and every entry of aux.On have been
\* decoded.
Relation_decoded(data, table, rs) ==
    LET bad == FirstError(rs)
    IN IF IsErr(table) THEN table
       ELSE IF bad # 0
       THEN ErrWrapAt("failed to unmarshal on condition at index", bad - 1, rs[bad])
       ELSE Relation(stringToJoinType(StrOf(data, "joinType")), rs, table)

Relation_UnmarshalJSON(data) ==
    IF ~(StructOK(data) /\ StrOK(data, "joinType") /\ ListOK(data, "on")) THEN ErrJSON
    ELSE LET raws == ListOf(data, "on")
         IN Relation_decoded(data,
                IF Has(data, "table") THEN Table_Unmarshal(Get(data, "table"))
                ELSE Table("", "", <<>>),
                [i \in 1..Len(raws) |-> unmarshalCondition(raws[i])])

\* SQLBuilder.UnmarshalJSON once the members have been decoded.
SQLBuilder_decoded(data, fields, table, sorts, groupBy, wheres) ==
    IF FirstError(fields) # 0 THEN fields[FirstError(fields)]
    ELSE IF IsErr(table) THEN table
    ELSE IF FirstError(sorts) # 0 THEN sorts[FirstError(sorts)]
    ELSE IF FirstError(groupBy) # 0 THEN groupBy[FirstError(groupBy)]
    ELSE IF FirstError(wheres) # 0
    THEN ErrWrapAt("failed to unmarshal where condition at index",
                   FirstError(wheres) - 1, wheres[FirstError(wheres)])
    ELSE SQLBuilder(StrOf(data, "dialect"), fields, table, wheres, sorts,
                    groupBy, 0, 0)

\* json.Unmarshal(data, &qb) with qb a fresh SQLBuilder: limit and offset stay 0.
SQLBuilder_UnmarshalJSON(data) ==
    IF ~(StructOK(data) /\ StrOK(data, "dialect") /\ ListOK(data, "fields")
         /\ ListOK(data, "wheres") /\ ListOK(data, "sorts") /\ ListOK(data, "groupBy"))
    THEN ErrJSON
    ELSE SQLBuilder_decoded(data,
             [i \in 1..Len(ListOf(data, "fields")) |->
                 Field_UnmarshalJSON(ListOf(data, "fields")[i])],
             IF Has(data, "table") THEN Table_Unmarshal(Get(data, "table"))
             ELSE Table("", "", <<>>),
             [i \in 1..Len(ListOf(data, "sorts")) |->
                 Sort_UnmarshalJSON(ListOf(data, "sorts")[i])],
             [i \in 1..Len(ListOf(data, "groupBy")) |->
                 Field_UnmarshalJSON(ListOf(data, "groupBy")[i])],
             [i \in 1..Len(ListOf(data, "wheres")) |->
                 unmarshalCondition(ListOf(data, "wheres")[i])])

(***************************************************************************)
(* The descriptor round trip's specification: a descriptor is built with   *)
(* the builder methods, with Limit(0), encoded with json.Marshal and       *)
(* decoded into a fresh SQLBuilder.                                        *)
(***************************************************************************)
regexpBoolOp == BoolOp("RegexpLikeOp", "name", "u", GStr("^a"))
joinOn == BoolOp("EqOp", "user_id", "o", Field("id", "u", "", GNil))
BuiltFieldLists ==
    {<<>>, <<Field("id", "u", "", GNil)>>,
     <<Field("id", "u", "", GNil), Field("name", "u", "label", GNil)>>,
     <<Field("", "", "total", countLiteral)>>}
BuiltWhereLists ==
    {<<>>, <<eqBoolOp>>, <<regexpBoolOp>>, <<betweenOp, eqBoolOp>>,
     <<WhereGroup("OrType", <<eqBoolOp, BoolOp("InOp", "id", "u", GSlice(<<GNum(1), GNum(2)>>))>>)>>}
BuiltSortLists == {<<>>, <<Sort("name", "u", "DescSortDir"), Sort("id", "", "AscDir")>>}
BuiltGroupLists == {<<>>, <<Field("role", "u", "", GNil)>>}
\* No join, a left join with an ON condition, or two joins.
Joined(b) ==
    {b, LeftJoin(b, "orders", "o", <<joinOn>>),
     Join(InnerJoin(b, "orders", "o", <<joinOn>>), "CrossJoinType",
          Table("tags", "t", <<>>), <<>>)}
BuiltDescriptors ==
    UNION {Joined(Limit(OrderBy(GroupByFields(Where(WithFields(
               New("postgres", "users", "u"), fs), ws), gs), ss), 0)) :
           fs \in BuiltFieldLists, ws \in BuiltWhereLists,
           gs \in BuiltGroupLists, ss \in BuiltSortLists}

InitDescriptor ==
    /\ qb \in BuiltDescriptors
    /\ wire = NotRun /\ restored = NotRun
    /\ ret = NotRun
    /\ doc = NotRun /\ cond = NotRun /\ expr = NotRun
    /\ val = NotRun /\ back = NotRun
    /\ arg = NotRun /\ opts = NotRun /\ out = NotRun
    /\ passed = NotRun /\ viaYAML = NotRun /\ text = NotRun /\ parsed = NotRun

\* json.Marshal(qb)
MarshalDescriptor ==
    /\ qb # NotRun /\ wire = NotRun
    /\ wire' = Marshal(qb)
    /\ UNCHANGED <<qb, ret, restored, doc, cond, expr, val, back, arg, opts, out,
                   passed, viaYAML, text, parsed>>

\* json.Unmarshal(wire, &restored)
UnmarshalDescriptor ==
    /\ wire # NotRun /\ restored = NotRun
    /\ restored' = SQLBuilder_UnmarshalJSON(wire)
    /\ UNCHANGED <<qb, ret, wire, doc, cond, expr, val, back, arg, opts, out,
                   passed, viaYAML, text, parsed>>

NextDescriptor == MarshalDescriptor \/ UnmarshalDescriptor

SpecDescriptor == InitDescriptor /\ [][NextDescriptor]_vars

\* The joins of a table tree, counted over every level.
RECURSIVE RelationCount(_)
RelationCount(rels) ==
    IF rels = <<>> THEN 0
    ELSE 1 + RelationCount(Head(rels).Table.Relations) + RelationCount(Tail(rels))

\* C6 as stated: a descriptor built with limit 0 and offset 0 is restored from
\* its JSON with the same dialect and table and as many fields, wheres, sorts
\* and relations, and Select on the restored descriptor returns what Select on
\* the original returns.
C6_DescriptorRoundTrip ==
    restored # NotRun =>
        /\ ~IsErr(restored)
        /\ restored.Dialect = qb.Dialect
        /\ restored.Table.Name = qb.Table.Name /\ restored.Table.Alias = qb.Table.Alias
        /\ Len(restored.Fields) = Len(qb.Fields)
        /\ Len(restored.Wheres) = Len(qb.Wheres)
        /\ Len(restored.Sorts) = Len(qb.Sorts)
        /\ RelationCount(restored.Table.Relations) = RelationCount(qb.Table.Relations)
        /\ Select(restored) = Select(qb)

(***************************************************************************)
(* Decoding a descriptor from YAML: the UnmarshalYAML methods.  The YAML   *)
(* library fills an auxiliary struct; `wheres`, `on` and `exp` are filled  *)
(* as untyped maps, encoded to JSON with json.Marshal and decoded with the *)
(* JSON decoders.  A document is the same tree in both forms.              *)
(***************************************************************************)
\* The YAML library's own error: a node that does not fit the Go field.
ErrYAML == ErrNew("yaml: cannot unmarshal")
\* A map member (map[string]interface{}): a mapping, or null for the nil map.
MapOK(d, k) == ~Has(d, k) \/ Get(d, k).j \in {"object", "null"}
\* A member holding a list of maps ([]map[string]interface{}).
MapListOK(d, k) ==
    /\ ListOK(d, k)
    /\ \A i \in 1..Len(ListOf(d, k)) : ListOf(d, k)[i].j \in {"object", "null"}
\* json.Marshal of the map the YAML library filled from node d
mapToJSON(d) == Marshal(rawValue(d))

Field_UnmarshalYAML(data) ==
    IF ~(StructOK(data) /\ StrOK(data, "name") /\ StrOK(data, "tableAlias")
         /\ StrOK(data, "fieldAlias") /\ MapOK(data, "exp"))
    THEN ErrYAML
    ELSE Field_decoded(data, IF Len(Members(IF Has(data, "exp") THEN Get(data, "exp")
                                               ELSE JNull)) > 0
                             THEN unmarshalExpression(mapToJSON(Get(data, "exp")))
                             ELSE GNil)

Sort_UnmarshalYAML(data) ==
    IF ~(StructOK(data) /\ StrOK(data, "name") /\ StrOK(data, "tableAlias")
         /\ StrOK(data, "order"))
    THEN ErrYAML
    ELSE Sort(StrOf(data, "name"), StrOf(data, "tableAlias"),
              stringToSortDirection(StrOf(data, "order")))

RECURSIVE Table_UnmarshalYAML(_)
RECURSIVE Relation_UnmarshalYAML(_)

\* Table has no UnmarshalYAML of its own: the YAML library fills the struct,
\* each relation through Relation.UnmarshalYAML.
Table_UnmarshalYAML(data) ==
    IF ~(StructOK(data) /\ StrOK(data, "name") /\ StrOK(data, "alias")
         /\ ListOK(data, "relations"))
    THEN ErrYAML
    ELSE LET raws == ListOf(data, "relations")
         IN Table_decoded(data,
                [i \in 1..Len(raws) |-> Relation_UnmarshalYAML(raws[i])])

Relation_UnmarshalYAML(data) ==
    IF ~(StructOK(data) /\ StrOK(data, "joinType") /\ MapListOK(data, "on"))
    THEN ErrYAML
    ELSE LET raws == ListOf(data, "on")
         IN Relation_decoded(data,
                IF Has(data, "table") THEN Table_UnmarshalYAML(Get(data, "table"))
                ELSE Table("", "", <<>>),
                [i \in 1..Len(raws) |-> unmarshalCondition(mapToJSON(raws[i]))])

\* yaml.Unmarshal(data, &qb) with qb a fresh SQLBuilder
SQLBuilder_UnmarshalYAML(data) ==
    IF ~(StructOK(data) /\ StrOK(data, "dialect") /\ ListOK(data, "fields")
         /\ MapListOK(data, "wheres") /\ ListOK(data, "sorts")
         /\ ListOK(data, "groupBy"))
    THEN ErrYAML
    ELSE SQLBuilder_decoded(data,
             [i \in 1..Len(ListOf(data, "fields")) |->
                 Field_UnmarshalYAML(ListOf(data, "fields")[i])],
             IF Has(data, "table") THEN Table_UnmarshalYAML(Get(data, "table"))
             ELSE Table("", "", <<>>),
             [i \in 1..Len(ListOf(data, "sorts")) |->
                 Sort_UnmarshalYAML(ListOf(data, "sorts")[i])],
             [i \in 1..Len(ListOf(data, "groupBy")) |->
                 Field_UnmarshalYAML(ListOf(data, "groupBy")[i])],
             [i \in 1..Len(ListOf(data, "wheres")) |->
                 unmarshalCondition(mapToJSON(ListOf(data, "wheres")[i]))])

(***************************************************************************)
(* The document specification: a descriptor document is drawn and decoded  *)
(* into a fresh SQLBuilder from its JSON form and from its YAML form.      *)
(***************************************************************************)
rangeNode ==
    JObj(<< <<"op", JStr("between")>>, <<"fieldName", JStr("age")>>,
            <<"start", JNum(18)>>, <<"end", JNum(65)>> >>)
\* A group whose second entry has no condition signature.
badGroupNode ==
    JObj(<< <<"op", JStr("AND")>>, <<"conditions", JArr(<<boolNode, unknownNode>>)>> >>)
literalNode == JObj(<< <<"value", JStr("COUNT(*)")>> >>)

DocFieldLists ==
    {<<>>, <<fieldNode>>,
     <<fieldNode, JObj(<< <<"fieldAlias", JStr("total")>>, <<"exp", literalNode>> >>)>>,
     <<JObj(<< <<"name", JStr("id")>>, <<"exp", JNull>> >>)>>,
     <<JObj(<< <<"name", JStr("id")>>, <<"exp", JObj(<<>>)>> >>)>>}
DocWhereLists ==
    {<<>>, <<boolNode>>, <<rangeNode, groupNode>>, <<JNull>>,
     <<unknownNode>>, <<boolNode, unknownNode>>, <<boolNode, rangeNode, fieldNode>>,
     <<badGroupNode>>, <<boolNode, badGroupNode>>,
     <<JObj(<< <<"op", JStr("OR")>>, <<"conditions", JArr(<<rangeNode, badGroupNode>>)>> >>)>>}
DocSortLists ==
    {<<>>, <<JObj(<< <<"name", JStr("name")>>, <<"order", JStr("DESC")>> >>)>>}
DocTable(name, alias, relations) ==
    JObj(<< <<"name", JStr(name)>>, <<"alias", JStr(alias)>> >>
         \o (IF relations = <<>> THEN <<>> ELSE << <<"relations", JArr(relations)>> >>))
DocRelation(joinType, on, table) ==
    JObj(<< <<"joinType", JStr(joinType)>> >>
         \o (IF on = <<>> THEN <<>> ELSE << <<"on", JArr(on)>> >>)
         \o << <<"table", table>> >>)
DocRelationLists ==
    {<<>>,
     <<DocRelation("LEFT", <<boolNode>>, DocTable("orders", "o", <<>>))>>,
     <<DocRelation("INNER", <<boolNode, rangeNode, unknownNode>>,
                   DocTable("orders", "o", <<>>))>>,
     <<DocRelation("CROSS", <<>>,
                   DocTable("tags", "t",
                            <<DocRelation("RIGHT", <<unknownNode>>,
                                          DocTable("items", "i", <<>>))>>))>>}
Document(fields, relations, wheres, sorts) ==
    JObj(<< <<"dialect", JStr("postgres")>> >>
         \o (IF fields = <<>> THEN <<>> ELSE << <<"fields", JArr(fields)>> >>)
         \o << <<"table", DocTable("users", "u", relations)>> >>
         \o (IF wheres = <<>> THEN <<>> ELSE << <<"wheres", JArr(wheres)>> >>)
         \o (IF sorts = <<>> THEN <<>> ELSE << <<"sorts", JArr(sorts)>> >>))
Documents ==
    {Document(fs, rs, ws, ss) :
        fs \in DocFieldLists, rs \in DocRelationLists, ws \in DocWhereLists,
        ss \in DocSortLists}

InitDocument ==
    /\ doc \in Documents
    /\ restored = NotRun /\ viaYAML = NotRun
    /\ qb = NotRun /\ ret = NotRun
    /\ cond = NotRun /\ expr = NotRun
    /\ val = NotRun /\ wire = NotRun /\ back = NotRun
    /\ arg = NotRun /\ opts = NotRun /\ out = NotRun
    /\ passed = NotRun /\ text = NotRun /\ parsed = NotRun

\* json.Unmarshal(doc, &restored)
DecodeJSON ==
    /\ doc # NotRun /\ restored = NotRun
    /\ restored' = SQLBuilder_UnmarshalJSON(doc)
    /\ UNCHANGED <<qb, ret, doc, cond, expr, val, wire, back, arg, opts, out,
                   passed, viaYAML, text, parsed>>

\* yaml.Unmarshal(doc, &viaYAML)
DecodeYAML ==
    /\ doc # NotRun /\ viaYAML = NotRun
    /\ viaYAML' = SQLBuilder_UnmarshalYAML(doc)
    /\ UNCHANGED <<qb, ret, restored, doc, cond, expr, val, wire, back, arg, opts, out,
                   passed, text, parsed>>

NextDocument == DecodeJSON \/ DecodeYAML

SpecDocument == InitDocument /\ [][NextDocument]_vars

\* C15 as stated: decoding the YAML form of a document yields the same
\* descriptor as decoding its JSON form (and fails when the JSON form fails).
C15_YAMLAsJSON ==
    (restored # NotRun /\ viaYAML # NotRun) =>
        IF IsErr(restored) THEN IsErr(viaYAML) ELSE viaYAML = restored

\* A node that has neither the comparison signature nor the group signature.
NoSignature(d) ==
    ~(Has(d, "op") /\ (Has(d, "fieldName") \/ Has(d, "conditions")))
\* A node with the group signature.
GroupSignature(d) == Has(d, "op") /\ Has(d, "conditions") /\ ~Has(d, "fieldName")

\* The position of the first entry of a condition list, from entry i on, that
\* has no signature or is a group holding such an entry: its index, followed by
\* the indices inside the nested groups; <<>> when every entry has a signature.
RECURSIVE FailureFrom(_, _)
FailureFrom(list, i) ==
    IF i > Len(list) THEN <<>>
    ELSE IF NoSignature(list[i]) THEN <<i - 1>>
    ELSE IF GroupSignature(list[i])
            /\ FailureFrom(ListOf(list[i], "conditions"), 1) # <<>>
         THEN <<i - 1>> \o FailureFrom(ListOf(list[i], "conditions"), 1)
    ELSE FailureFrom(list, i + 1)

\* The same for the `on` lists of a relation list, from relation i on: the
\* relations nested under a relation's table are decoded before its own `on`.
RECURSIVE OnFailureFrom(_, _)
OnFailureFrom(relations, i) ==
    IF i > Len(relations) THEN <<>>
    ELSE LET nested ==
                 IF Has(relations[i], "table")
                 THEN OnFailureFrom(ListOf(Get(relations[i], "table"), "relations"), 1)
                 ELSE <<>>
             own == FailureFrom(ListOf(relations[i], "on"), 1)
         IN IF nested # <<>> THEN nested
            ELSE IF own # <<>> THEN own
            ELSE OnFailureFrom(relations, i + 1)

\* The indices an error names, outermost first.
RECURSIVE IndexPath(_)
IndexPath(err) ==
    (IF "index" \in DOMAIN err THEN <<err.index>> ELSE <<>>)
    \o (IF "cause" \in DOMAIN err THEN IndexPath(err.cause) ELSE <<>>)

WherePath == FailureFrom(ListOf(doc, "wheres"), 1)
OnPath ==
    IF Has(doc, "table") THEN OnFailureFrom(ListOf(Get(doc, "table"), "relations"), 1)
    ELSE <<>>
\* The document's fields all decode: none has an `exp` without a signature.
FieldsDecode ==
    \A i \in 1..Len(ListOf(doc, "fields")) :
        ~IsErr(Field_UnmarshalJSON(ListOf(doc, "fields")[i]))

LowerCase ==
    <<"a", "b", "c", "d", "e", "f", "g", "h", "i", "j", "k", "l", "m",
      "n", "o", "p", "q", "r", "s", "t", "u", "v", "w", "x", "y", "z">>
UpperCase ==
    <<"A", "B", "C", "D", "E", "F", "G", "H", "I", "J", "K", "L", "M",
      "N", "O", "P", "Q", "R", "S", "T", "U", "V", "W", "X", "Y", "Z">>

\* unicode.IsSpace, on the characters the inputs draw from.
isSpace(c) == c \in {" ", "\t", "\n", "\r", "\f"}

\* unicode.ToLower and unicode.ToUpper of one character.
toLowerRune(c) ==
    IF \E i \in 1..Len(UpperCase) : UpperCase[i] = c
    THEN LowerCase[CHOOSE i \in 1..Len(UpperCase) : UpperCase[i] = c]
    ELSE c
toUpperRune(c) ==
    IF \E i \in 1..Len(LowerCase) : LowerCase[i] = c
    THEN UpperCase[CHOOSE i \in 1..Len(LowerCase) : LowerCase[i] = c]
    ELSE c

\* strings.TrimSpace: the slice between the first and the last character that
\* is not white space.
TrimSpace(s) ==
    LET kept == {i \in 1..Len(s) : ~isSpace(s[i])}
    IN IF kept = {} THEN <<>>
       ELSE SubSeq(s, CHOOSE i \in kept : \A k \in kept : i <= k,
                      CHOOSE i \in kept : \A k \in kept : k <= i)

\* strings.ToLower
ToLower(s) == [i \in 1..Len(s) |-> toLowerRune(s[i])]
ToUpper(s) == [i \in 1..Len(s) |-> toUpperRune(s[i])]

RECURSIVE GoString(_)
GoString(s) == IF s = <<>> THEN "" ELSE Head(s) \o GoString(Tail(s))

\* The case labels of ParseBoolOperation's switch.
ParseBoolOperation_switch(op) ==
    CASE op \in {"!=", "<>"} -> "NeqOp"
      [] op = "is" -> "IsOp"
      [] op = "is not" -> "IsNotOp"
      [] op = ">" -> "GtOp"
      [] op = ">=" -> "GteOp"
      [] op = "<" -> "LtOp"
      [] op = "<=" -> "LteOp"
      [] op = "in" -> "InOp"
      [] op = "not in" -> "NotInOp"
      [] op = "like" -> "LikeOp"
      [] op = "not like" -> "NotLikeOp"
      [] op = "ilike" -> "ILikeOp"
      [] op = "not ilike" -> "NotILikeOp"
      [] op = "~" -> "RegexpLikeOp"
      [] op = "!~" -> "RegexpNotLikeOp"
      [] op = "~*" -> "RegexpILikeOp"
      [] op = "!~*" -> "RegexpNotILikeOp"
      [] OTHER -> "EqOp"

\* ParseBoolOperation switching over the trimmed string as it was written.
ParseBoolOperation_caseSensitive(s) ==
    ParseBoolOperation_switch(GoString(TrimSpace(s)))

\* ParseBoolOperation: the switch over strings.ToLower(strings.TrimSpace(s)).
ParseBoolOperation(s) ==
    ParseBoolOperation_switch(GoString(ToLower(TrimSpace(s))))

\* ParseRangeOperation accepting the wire name in place of "not between".
ParseRangeOperation_wireName(s) ==
    LET op == GoString(ToLower(TrimSpace(s)))
    IN IF op \in {"notbetween", "not"} THEN "NotBetweenOp" ELSE "BetweenOp"

\* ParseRangeOperation: the switch over strings.ToLower(strings.TrimSpace(s)).
ParseRangeOperation(s) ==
    LET op == GoString(ToLower(TrimSpace(s)))
    IN IF op \in {"not between", "not"} THEN "NotBetweenOp" ELSE "BetweenOp"

(***************************************************************************)
(* The operator strings: every word the parsers and the decoders           *)
(* recognise, the wire names, and words neither knows, each as written, in *)
(* upper case and in lower case, with and without surrounding white space. *)
(* `folded` is the word in lower case, `exact` the word as written.        *)
(***************************************************************************)
Word(folded, exact, spelt) == [folded |-> folded, exact |-> exact, spelt |-> spelt]

Words ==
    {Word("=", "=", <<"=">>),
     Word("!=", "!=", <<"!", "=">>),
     Word("<>", "<>", <<"<", ">">>),
     Word("is", "is", <<"i", "s">>),
     Word("is not", "is not", <<"i", "s", " ", "n", "o", "t">>),
     Word(">", ">", <<">">>),
     Word(">=", ">=", <<">", "=">>),
     Word("<", "<", <<"<">>),
     Word("<=", "<=", <<"<", "=">>),
     Word("in", "in", <<"i", "n">>),
     Word("not in", "not in", <<"n", "o", "t", " ", "i", "n">>),
     Word("like", "like", <<"l", "i", "k", "e">>),
     Word("not like", "not like", <<"n", "o", "t", " ", "l", "i", "k", "e">>),
     Word("ilike", "ilike", <<"i", "l", "i", "k", "e">>),
     Word("not ilike", "not ilike", <<"n", "o", "t", " ", "i", "l", "i", "k", "e">>),
     Word("~", "~", <<"~">>),
     Word("!~", "!~", <<"!", "~">>),
     Word("~*", "~*", <<"~", "*">>),
     Word("!~*", "!~*", <<"!", "~", "*">>),
     Word("eq", "eq", <<"e", "q">>),
     Word("neq", "neq", <<"n", "e", "q">>),
     Word("isnot", "isNot", <<"i", "s", "N", "o", "t">>),
     Word("gt", "gt", <<"g", "t">>),
     Word("notin", "notIn", <<"n", "o", "t", "I", "n">>),
     Word("ilike", "iLike", <<"i", "L", "i", "k", "e">>),
     Word("between", "between", <<"b", "e", "t", "w", "e", "e", "n">>),
     Word("not between", "not between", <<"n", "o", "t", " ", "b", "e", "t", "w", "e", "e", "n">>),
     Word("not", "not", <<"n", "o", "t">>),
     Word("notbetween", "notBetween", <<"n", "o", "t", "B", "e", "t", "w", "e", "e", "n">>),
     Word("and", "AND", <<"A", "N", "D">>),
     Word("or", "OR", <<"O", "R">>),
     Word("asc", "ASC", <<"A", "S", "C">>),
     Word("desc", "DESC", <<"D", "E", "S", "C">>),
     Word("inner", "INNER", <<"I", "N", "N", "E", "R">>),
     Word("left", "LEFT", <<"L", "E", "F", "T">>),
     Word("right", "RIGHT", <<"R", "I", "G", "H", "T">>),
     Word("full outer", "FULL OUTER", <<"F", "U", "L", "L", " ", "O", "U", "T", "E", "R">>),
     Word("cross", "CROSS", <<"C", "R", "O", "S", "S">>),
     Word("", "", <<>>),
     Word("xyz", "xyz", <<"x", "y", "z">>),
     Word("not  in", "not  in", <<"n", "o", "t", " ", " ", "i", "n">>)}

Casings == {"asis", "upper", "lower"}
Cased(casing, s) ==
    CASE casing = "upper" -> ToUpper(s)
      [] casing = "lower" -> ToLower(s)
      [] OTHER -> s

LeftPads == {<<>>, <<" ">>, <<"\t", "\n">>}
RightPads == {<<>>, <<" ">>}

Texts ==
    {[folded |-> w.folded, exact |-> w.exact, spelt |-> w.spelt,
      left |-> l, right |-> r, chars |-> l \o Cased(c, w.spelt) \o r] :
        w \in Words, c \in Casings, l \in LeftPads, r \in RightPads}

\* How a decoder's document names the operator: by a string, by null, or not
\* at all.
Presences == {"string", "null", "absent"}
OpMember(k, presence) ==
    CASE presence = "string" -> <<<<k, JStr(GoString(text.chars))>>>>
      [] presence = "null" -> <<<<k, JNull>>>>
      [] OTHER -> <<>>

Parsed(fn, presence, result) == [fn |-> fn, presence |-> presence, result |-> result]

InitParse ==
    /\ text \in Texts
    /\ parsed = NotRun
    /\ qb = NotRun /\ ret = NotRun /\ restored = NotRun
    /\ doc = NotRun /\ cond = NotRun /\ expr = NotRun
    /\ val = NotRun /\ wire = NotRun /\ back = NotRun
    /\ arg = NotRun /\ opts = NotRun /\ out = NotRun
    /\ passed = NotRun /\ viaYAML = NotRun

NotParsed ==
    <<qb, ret, restored, doc, cond, expr, val, wire, back, arg, opts, out,
      passed, viaYAML, text>>

CallParseBoolOperation ==
    /\ parsed' = Parsed("ParseBoolOperation", "string", ParseBoolOperation(text.chars))
    /\ UNCHANGED NotParsed

CallParseRangeOperation ==
    /\ parsed' = Parsed("ParseRangeOperation", "string", ParseRangeOperation(text.chars))
    /\ UNCHANGED NotParsed

\* json.Unmarshal(data, &x) with x a BoolOp, a RangeOp, a WhereGroup, a Relation
\* or a Sort, the document naming the operator as the text.
DecodeBoolOp ==
    \E p \in Presences :
        /\ parsed' = Parsed("BoolOp", p,
               BoolOp_UnmarshalJSON(JObj(OpMember("op", p)
                   \o <<<<"fieldName", JStr("age")>>, <<"value", JNum(18)>>>>)))
        /\ UNCHANGED NotParsed

DecodeRangeOp ==
    \E p \in Presences :
        /\ parsed' = Parsed("RangeOp", p,
               RangeOp_UnmarshalJSON(JObj(OpMember("op", p)
                   \o <<<<"fieldName", JStr("age")>>, <<"start", JNum(1)>>,
                        <<"end", JNum(9)>>>>)))
        /\ UNCHANGED NotParsed

DecodeWhereGroup ==
    \E p \in Presences :
        /\ parsed' = Parsed("WhereGroup", p,
               WhereGroup_UnmarshalJSON(JObj(OpMember("op", p)
                   \o <<<<"conditions", JArr(<<>>)>>>>)))
        /\ UNCHANGED NotParsed

DecodeRelation ==
    \E p \in Presences :
        /\ parsed' = Parsed("Relation", p,
               Relation_UnmarshalJSON(JObj(OpMember("joinType", p)
                   \o <<<<"table", JObj(<<<<"name", JStr("orders")>>>>)>>>>)))
        /\ UNCHANGED NotParsed

DecodeSort ==
    \E p \in Presences :
        /\ parsed' = Parsed("Sort", p,
               Sort_UnmarshalJSON(JObj(<<<<"name", JStr("age")>>>>
                   \o OpMember("order", p))))
        /\ UNCHANGED NotParsed

NextParse ==
    \/ CallParseBoolOperation
    \/ CallParseRangeOperation
    \/ DecodeBoolOp
    \/ DecodeRangeOp
    \/ DecodeWhereGroup
    \/ DecodeRelation
    \/ DecodeSort

SpecParse == InitParse /\ [][NextParse]_vars

\* C17: ParseBoolOperation answers for every string, and its answer depends
\* only on the string with the surrounding white space removed and the
\* letters in lower case: != and <> give Neq, is Is, "is not" IsNot, > Gt,
\* >= Gte, < Lt, <= Lte, in In, "not in" NotIn, like Like, "not like" NotLike,
\* ilike ILike, "not ilike" NotILike, ~ !~ ~* !~* the four regexp operators,
\* and = and every other string Eq.
OperatorNamed(folded) ==
    CASE folded \in {"!=", "<>"} -> "NeqOp"
      [] folded = "is" -> "IsOp"
      [] folded = "is not" -> "IsNotOp"
      [] folded = ">" -> "GtOp"
      [] folded = ">=" -> "GteOp"
      [] folded = "<" -> "LtOp"
      [] folded = "<=" -> "LteOp"
      [] folded = "in" -> "InOp"
      [] folded = "not in" -> "NotInOp"
      [] folded = "like" -> "LikeOp"
      [] folded = "not like" -> "NotLikeOp"
      [] folded = "ilike" -> "ILikeOp"
      [] folded = "not ilike" -> "NotILikeOp"
      [] folded = "~" -> "RegexpLikeOp"
      [] folded = "!~" -> "RegexpNotLikeOp"
      [] folded = "~*" -> "RegexpILikeOp"
      [] folded = "!~*" -> "RegexpNotILikeOp"
      [] OTHER -> "EqOp"

C17_ParseBoolOperation ==
    (parsed # NotRun /\ parsed.fn = "ParseBoolOperation")
        => /\ parsed.result \in BoolOps
           /\ parsed.result = OperatorNamed(text.folded)

\* ParseBoolOperation has read " NOT IN" with white space around it and in
\* upper case as NotIn.
C17_Witness ==
    /\ parsed # NotRun /\ parsed.fn = "ParseBoolOperation"
    /\ text.folded = "not in" /\ text.chars # text.spelt
    /\ text.left # <<>> /\ text.right # <<>>
    /\ text.chars = text.left \o ToUpper(text.spelt) \o text.right
    /\ parsed.result = "NotInOp"

\* The text is one of the pool's words exactly as written, with no white space
\* around it.
Verbatim == text.left = <<>> /\ text.right = <<>> /\ text.chars = text.spelt

\* The operator C18 names for a string: NotBetween for notBetween and for not,
\* Between for every other string and for no string.
RangeOperatorNamed ==
    IF parsed.presence = "string" /\ text.exact \in {"notBetween", "not"}
    THEN "NotBetweenOp" ELSE "BetweenOp"

\* C18 as stated: the document decoder (stringToRangeOp, through
\* RangeOp.UnmarshalJSON) and ParseRangeOperation both read the strings
\* notBetween and not as NotBetween, and every other string, between and a
\* missing operator included, as Between.
C18_AsStated ==
    /\ (parsed # NotRun /\ parsed.fn = "RangeOp"
        /\ (Verbatim \/ parsed.presence # "string"))
           => /\ ~IsErr(parsed.result)
              /\ parsed.result.Op = RangeOperatorNamed
    /\ (parsed # NotRun /\ parsed.fn = "ParseRangeOperation" /\ Verbatim)
           => parsed.result = RangeOperatorNamed

\* C18: the two functions recognise different strings.  The document decoder
\* reads exactly the string notBetween as NotBetween and every other string
\* (not, "not between", between, any other spelling or case, white space
\* around it), null and a missing operator as Between.  ParseRangeOperation
\* trims and lower-cases its argument and then reads "not between" and not as
\* NotBetween and every other string, notBetween included, as Between.
C18_RangeOperatorStrings ==
    /\ (parsed # NotRun /\ parsed.fn = "RangeOp")
           => /\ ~IsErr(parsed.result)
              /\ parsed.result.Op =
                     IF parsed.presence = "string" /\ Verbatim
                        /\ text.exact = "notBetween"
                     THEN "NotBetweenOp" ELSE "BetweenOp"
    /\ (parsed # NotRun /\ parsed.fn = "ParseRangeOperation")
           => parsed.result =
                  IF text.folded \in {"not between", "not"}
                  THEN "NotBetweenOp" ELSE "BetweenOp"

\* ParseRangeOperation has read notBetween, exactly as the decoder's documents
\* write it, as Between.
C18_Witness ==
    /\ parsed # NotRun /\ parsed.fn = "ParseRangeOperation"
    /\ Verbatim /\ text.exact = "notBetween"
    /\ parsed.result = "BetweenOp"

\* The string a decoder was handed for its operator member: the text when the
\* document names the operator by a string, the empty string when the member
\* is null or absent.  Only a word of the pool exactly as written is named;
\* every other text stands for a string no decoder knows.
Handed ==
    IF parsed.presence = "string" /\ Verbatim THEN text.exact ELSE ""

\* The values C19 and the wire format name, per enumeration.
BoolOperatorFor(s) ==
    CASE s = "neq" -> "NeqOp"
      [] s = "is" -> "IsOp"
      [] s = "isNot" -> "IsNotOp"
      [] s = "gt" -> "GtOp"
      [] s = "in" -> "InOp"
      [] s = "notIn" -> "NotInOp"
      [] s = "like" -> "LikeOp"
      [] s = "iLike" -> "ILikeOp"
      [] OTHER -> "EqOp"
RangeOperatorFor(s) == IF s = "notBetween" THEN "NotBetweenOp" ELSE "BetweenOp"
GroupOperatorFor(s) == IF s = "OR" THEN "OrType" ELSE "AndType"
JoinTypeFor(s) ==
    CASE s = "LEFT" -> "LeftJoinType"
      [] s = "RIGHT" -> "RightJoinType"
      [] s = "FULL OUTER" -> "FullOuterJoinType"
      [] s = "CROSS" -> "CrossJoinType"
      [] OTHER -> "InnerJoinType"
SortDirectionFor(s) == IF s = "DESC" THEN "DescSortDir" ELSE "AscDir"

Decoders == {"BoolOp", "RangeOp", "WhereGroup", "Relation", "Sort"}

\* C19: decoding a BoolOp, a RangeOp, a WhereGroup, a Relation or a Sort never
\* fails because of its operator, join type or direction, whatever string the
\* document gives, and also when it gives null or nothing: an unknown or
\* missing boolean operator decodes as Eq, a range operator as Between, a
\* group operator as And, a join type as Inner and a direction as Asc, while
\* OR, DESC, LEFT, RIGHT, FULL OUTER and CROSS (written exactly so) decode to
\* their own values.
C19_EnumerationDefaults ==
    (parsed # NotRun /\ parsed.fn \in Decoders)
        => /\ ~IsErr(parsed.result)
           /\ parsed.fn = "BoolOp" => parsed.result.Op = BoolOperatorFor(Handed)
           /\ parsed.fn = "RangeOp" => parsed.result.Op = RangeOperatorFor(Handed)
           /\ parsed.fn = "WhereGroup" => parsed.result.Op = GroupOperatorFor(Handed)
           /\ parsed.fn = "Relation" => parsed.result.JoinType = JoinTypeFor(Handed)
           /\ parsed.fn = "Sort" => parsed.result.Order = SortDirectionFor(Handed)

\* A relation whose document writes the join type as "full outer", in lower
\* case, has decoded as an inner join.
C19_Witness ==
    /\ parsed # NotRun /\ parsed.fn = "Relation" /\ parsed.presence = "string"
    /\ text.exact = "FULL OUTER" /\ text.chars = ToLower(text.spelt)
    /\ ~IsErr(parsed.result)
    /\ parsed.result.JoinType = "InnerJoinType"

(***************************************************************************)
(* The Literal rule of unmarshalExpression (SpecDecode).                   *)
(***************************************************************************)
\* The node reaches the rule for `value`: it is not decoded as a Case and has
\* no `fields`.
ReachesValueRule(d) ==
    /\ ~(FirstEntryHasWhen(d) /\ EntriesAreObjects(d))
    /\ ~Has(d, "fields")
    /\ Has(d, "value")

\* The variant the rules after the Literal rule give the node.
LaterShape(d) ==
    IF Has(d, "name") THEN "Field"
    ELSE IF {"op", "fieldName"} \subseteq Keys(d)
         THEN IF "start" \in Keys(d) THEN "RangeOp" ELSE "BoolOp"
    ELSE "unknown"

\* C20: in unmarshalExpression a node with the key `value` is decoded as a
\* Literal only when that value is a string; when it is not a string the node
\* is not an error at that rule but goes on to the later rules and decodes as
\* a Field (with `name`) or as a RangeOp or BoolOp (with `op` and `fieldName`);
\* a node no later rule knows does not decode.
C20_LiteralNeedsString ==
    (expr # NotRun /\ ReachesValueRule(doc))
        => IF Get(doc, "value").j = "string"
           THEN DecodesAs("Literal", doc, expr)
           ELSE IF LaterShape(doc) = "unknown" THEN IsErr(expr)
           ELSE DecodesAs(LaterShape(doc), doc, expr)

(***************************************************************************)
(* Pointers, fields and comparisons in the resolver (SpecResolve).         *)
(***************************************************************************)
\* The value at the end of a chain of pointers: the first value that is not a
\* non-nil pointer.
RECURSIVE FinalPointee(_)
FinalPointee(a) == IF a.g = "ptr" THEN FinalPointee(a.p) ELSE a

\* C21: resolving a pointer restarts on what it points to: for a chain of
\* pointers of any depth, handleAny of the pointer equals handleAny of the
\* value at the end of the chain with the same options, and a nil pointer at
\* any level resolves to the NULL literal.  (Chains that end in a nil
\* interface value are left out.)
C21_PointerChains ==
    (out # NotRun /\ arg.g = "ptr" /\ FinalPointee(arg) # GNil)
        => out = handleAny(FinalPointee(arg), opts)

\* The output alias a Field gives its inner expression: fieldAlias, else name.
OutputAlias(f) == IF f.FieldAlias # "" THEN f.FieldAlias ELSE f.Name

\* C22: a Field without an inner expression compiles to its column
\* identifier, wrapped with fieldAlias iff fieldAlias is not empty; a Field
\* with an inner expression and a fieldAlias or a name compiles to the
\* resolved inner expression wrapped with that output alias, whatever the
\* kind of the inner expression (Literal, Case, Coalesce, nested Field,
\* condition, sub-query, scalar).
C22_FieldCompilation ==
    (out # NotRun /\ arg.g = "Field")
        => /\ arg.Exp = GNil
                 => out = IF arg.FieldAlias # ""
                          THEN XAs(XIdent(arg.TableAlias, arg.Name), arg.FieldAlias)
                          ELSE XIdent(arg.TableAlias, arg.Name)
           /\ (arg.Exp # GNil /\ OutputAlias(arg) # ""
               /\ handleAny(arg.Exp, <<>>) # Panic)
                 => out = XAs(handleAny(arg.Exp, <<>>), OutputAlias(arg))

\* C23: a BoolOp whose operator is one of the eighteen constants compiles to
\* the comparison, never absent, of the column fieldName of tableAlias with
\* the resolved value under exactly that operator; a nil value resolves to
\* the NULL literal and a scalar to one bound value; when resolving the value
\* panics the compilation panics.  A BoolOp with any other operator value
\* compiles to the absent expression and raises nothing, whatever its value.
\* The options of the call change nothing.
C23_BoolOpCompilation ==
    (out # NotRun /\ arg.g = "BoolOp")
        => IF arg.Op \in BoolOps
           THEN IF handleAny(arg.Value, <<>>) = Panic THEN out = Panic
                ELSE /\ out # XNil /\ out.x = "Bool"
                     /\ out.op = arg.Op
                     /\ out.lhs = XIdent(arg.TableAlias, arg.FieldName)
                     /\ out.rhs = handleAny(arg.Value, <<>>)
                     /\ arg.Value = GNil => out.rhs = NullLiteral
                     /\ arg.Value \in Scalars => out.rhs = XV(arg.Value)
           ELSE out = XNil

\* A BoolOp with an operator outside the enumeration, over a value whose own
\* resolution would panic, has compiled to the absent expression.
C23_Witness ==
    /\ out # NotRun /\ arg.g = "BoolOp" /\ arg.Op \notin BoolOps
    /\ handleAny(arg.Value, <<>>) = Panic
    /\ out = XNil

(***************************************************************************)
(* Nodes inside nodes: a node that may or may not decode, placed at each   *)
(* position of a host node, and the host decoded by unmarshalCondition and *)
(* by unmarshalExpression.                                                 *)
(***************************************************************************)
\* Objects with no signature, objects with a signature that do not decode as
\* it, nodes that decode, and scalars.
unknownObject == JObj(<< <<"foo", JNum(1)>> >>)
badFieldNode == JObj(<< <<"name", JStr("x")>>, <<"exp", unknownObject>> >>)
badLiteralNode == JObj(<< <<"value", JNum(18)>> >>)
badBoolNode == JObj(<< <<"op", JStr("eq")>>, <<"fieldName", JNum(5)>> >>)
badCoalesceNode == JObj(<< <<"fields", JNum(3)>> >>)
plainBoolNode == JObj(<< <<"op", JStr("gt")>>, <<"fieldName", JStr("age")>> >>)
InnerNodes ==
    {unknownObject, unknownNode, badFieldNode, badLiteralNode, badBoolNode,
     badCoalesceNode, fieldNode, literalNode, boolNode, plainBoolNode, rangeNode,
     JStr("x"), JNum(1)}

\* Positions decoded through unmarshalValue or a fallback chain of their own,
\* and positions decoded by one decoder.
ValuePositions ==
    {"BoolOp.value", "RangeOp.start", "RangeOp.end", "Literal.args", "Case.when",
     "Case.then", "Case.else", "WhereGroup.BoolOp.value"}
StrictPositions ==
    {"WhereGroup.conditions", "WhereGroup.WhereGroup.conditions", "Field.exp",
     "Coalesce.fields"}
Positions == ValuePositions \cup StrictPositions

groupOf(children) == JObj(<< <<"op", JStr("AND")>>, <<"conditions", JArr(children)>> >>)

\* The host node with node b at the position.
HostNode(pos, b) ==
    CASE pos = "BoolOp.value" ->
             JObj(<< <<"op", JStr("eq")>>, <<"fieldName", JStr("role")>>, <<"value", b>> >>)
      [] pos = "RangeOp.start" ->
             JObj(<< <<"op", JStr("between")>>, <<"fieldName", JStr("age")>>,
                     <<"start", b>>, <<"end", JNum(9)>> >>)
      [] pos = "RangeOp.end" ->
             JObj(<< <<"op", JStr("between")>>, <<"fieldName", JStr("age")>>,
                     <<"start", JNum(1)>>, <<"end", b>> >>)
      [] pos = "Literal.args" ->
             JObj(<< <<"value", JStr("? + ?")>>, <<"args", JArr(<<JNum(1), b>>)>> >>)
      [] pos = "Case.when" ->
             JObj(<< <<"conditions",
                       JArr(<<JObj(<< <<"when", b>>, <<"then", JStr("A")>> >>)>>)>> >>)
      [] pos = "Case.then" ->
             JObj(<< <<"conditions",
                       JArr(<<JObj(<< <<"when", boolNode>>, <<"then", b>> >>)>>)>> >>)
      [] pos = "Case.else" ->
             JObj(<< <<"conditions", JArr(<<armNode>>)>>, <<"else", b>> >>)
      [] pos = "WhereGroup.BoolOp.value" ->
             groupOf(<<JObj(<< <<"op", JStr("eq")>>, <<"fieldName", JStr("role")>>,
                               <<"value", b>> >>)>>)
      [] pos = "WhereGroup.conditions" -> groupOf(<<boolNode, b>>)
      [] pos = "WhereGroup.WhereGroup.conditions" -> groupOf(<<groupOf(<<b>>)>>)
      [] pos = "Field.exp" -> JObj(<< <<"name", JStr("total")>>, <<"exp", b>> >>)
      [] pos = "Coalesce.fields" -> JObj(<< <<"fields", JArr(<<fieldNode, b>>)>> >>)

Hosts == {[pos |-> p, inner |-> b, node |-> HostNode(p, b)] : p \in Positions, b \in InnerNodes}

InitNested ==
    /\ doc \in {h.node : h \in Hosts}
    /\ cond = NotRun /\ expr = NotRun
    /\ qb = NotRun /\ ret = NotRun /\ restored = NotRun
    /\ val = NotRun /\ wire = NotRun /\ back = NotRun
    /\ arg = NotRun /\ opts = NotRun /\ out = NotRun
    /\ passed = NotRun /\ viaYAML = NotRun /\ text = NotRun /\ parsed = NotRun

SpecNested == InitNested /\ [][NextDecode]_vars

\* The host the document is, and the decoder its kind is read by: conditions
\* by unmarshalCondition, expressions by unmarshalExpression.
TheHost == CHOOSE h \in Hosts : h.node = doc
ByCondition(pos) ==
    pos \in {"BoolOp.value", "RangeOp.start", "RangeOp.end", "WhereGroup.BoolOp.value",
             "WhereGroup.conditions", "WhereGroup.WhereGroup.conditions"}
HostRead == IF ByCondition(TheHost.pos) THEN cond # NotRun ELSE expr # NotRun
HostResult == IF ByCondition(TheHost.pos) THEN cond ELSE expr

\* The inner node does not decode by the decoders its position tries.
InnerFails(pos, b) ==
    CASE pos \in {"WhereGroup.conditions", "WhereGroup.WhereGroup.conditions"} ->
             IsErr(unmarshalCondition(b))
      [] pos = "Coalesce.fields" -> IsErr(Field_UnmarshalJSON(b))
      [] pos = "Case.when" -> IsErr(unmarshalCondition(b)) /\ IsErr(unmarshalExpression(b))
      [] OTHER -> IsErr(unmarshalExpression(b))

\* What the decoded host holds at the position.
Held(pos, r) ==
    CASE pos = "BoolOp.value" -> r.Value
      [] pos = "RangeOp.start" -> r.Start
      [] pos = "RangeOp.end" -> r.End
      [] pos = "Literal.args" -> r.Args[2]
      [] pos = "Case.when" -> r.Conditions[1].When
      [] pos = "Case.then" -> r.Conditions[1].Then
      [] pos = "Case.else" -> r.Else
      [] pos = "WhereGroup.BoolOp.value" -> r.Conditions[1].Value

NoMember == [j |-> "absent"]
MemberIf(k, v) == IF v = NoMember THEN <<>> ELSE << <<k, v>> >>

WhenNodes ==
    {boolNode, rangeNode, groupNode, fieldNode, literalNode, unknownObject, JStr("x")}
ThenNodes == {JStr("A"), JNum(1), literalNode, unknownObject}
ElseNodes == {NoMember, JStr("B"), fieldNode, badFieldNode}

ArmNodes == {JObj(<< <<"when", w>>, <<"then", t>> >>) : w \in WhenNodes, t \in ThenNodes}
ArmLists == {<<a>> : a \in ArmNodes} \cup {<<a, b>> : a \in ArmNodes, b \in ArmNodes}
CaseNodes ==
    {JObj(<< <<"conditions", JArr(arms)>> >> \o MemberIf("else", e)) :
        arms \in ArmLists, e \in ElseNodes}

InitCase ==
    /\ doc \in CaseNodes
    /\ cond = NotRun /\ expr = NotRun
    /\ qb = NotRun /\ ret = NotRun /\ restored = NotRun
    /\ val = NotRun /\ wire = NotRun /\ back = NotRun
    /\ arg = NotRun /\ opts = NotRun /\ out = NotRun
    /\ passed = NotRun /\ viaYAML = NotRun /\ text = NotRun /\ parsed = NotRun

SpecCase == InitCase /\ [][NextDecode]_vars

\* The first of the decoders that decodes the node, else the node as an
\* untyped value.
FirstDecoding(tries, node) ==
    IF \E i \in 1..Len(tries) : ~IsErr(tries[i])
    THEN tries[CHOOSE i \in 1..Len(tries) :
                   ~IsErr(tries[i]) /\ \A k \in 1..(i - 1) : IsErr(tries[k])]
    ELSE rawValue(node)

\* The arms of the Case document.
Arms == Get(doc, "conditions").a

\* C25: the arms of a decoded Case are the arms of the document in their
\* order; each `when` is the node decoded as a condition, else as an
\* expression, else as an untyped value, so that a `when` with `op` and
\* `fieldName` is a BoolOp or a RangeOp although it has the key `value`;
\* each `then` is the node decoded as an expression, else untyped; `else` is
\* the node decoded as an expression, else untyped, and nil when absent.
C25_CaseArms ==
    expr # NotRun =>
        /\ expr.g = "Case"
        /\ Len(expr.Conditions) = Len(Arms)
        /\ \A i \in 1..Len(Arms) :
              LET w == Get(Arms[i], "when")
                  t == Get(Arms[i], "then")
              IN /\ expr.Conditions[i].When =
                        FirstDecoding(<<unmarshalCondition(w), unmarshalExpression(w)>>, w)
                 /\ expr.Conditions[i].Then = FirstDecoding(<<unmarshalExpression(t)>>, t)
                 /\ w = boolNode => expr.Conditions[i].When.g = "BoolOp"
                 /\ w = rangeNode => expr.Conditions[i].When.g = "RangeOp"
                 /\ w = groupNode => expr.Conditions[i].When.g = "WhereGroup"
                 /\ w = literalNode => expr.Conditions[i].When.g = "Literal"
                 /\ w = unknownObject => expr.Conditions[i].When.g = "map"
        /\ expr.Else =
               IF Has(doc, "else")
               THEN FirstDecoding(<<unmarshalExpression(Get(doc, "else"))>>, Get(doc, "else"))
               ELSE GNil

\* A Case of two arms whose first `when` is a BoolOp node with a `value`
\* and whose second `when` is a Literal node: decoded as a BoolOp and a
\* Literal, in that order.
C25_Witness ==
    /\ expr # NotRun /\ Len(Arms) = 2
    /\ Get(Arms[1], "when") = boolNode /\ Get(Arms[2], "when") = literalNode
    /\ expr.g = "Case"
    /\ expr.Conditions[1].When.g = "BoolOp" /\ expr.Conditions[2].When.g = "Literal"

(***************************************************************************)
(* Joins, frame conditions and the mutation guard (Spec).                  *)
(***************************************************************************)
\* The relations of a table tree in pre-order: each relation, then the
\* relations of its own table, then its later siblings.
RECURSIVE PreOrder(_)
PreOrder(relations) ==
    IF relations = <<>> THEN <<>>
    ELSE <<Head(relations)>> \o PreOrder(Head(relations).Table.Relations)
         \o PreOrder(Tail(relations))

\* The join C26 names for a relation: of the relation's own join type, to its
\* table, on its conditions in list order.
JoinNamed(r) ==
    XJoin(r.JoinType, XTable(r.Table.Name, r.Table.Alias),
          [k \in 1..Len(r.On) |-> conditionExpression(r.On[k])])

\* C26: the joins of the statement Select and Count build are the relations
\* of the table tree in pre-order, each with the relation's ON conditions in
\* list order and with the relation's own join type, for Inner, Left, Right,
\* FullOuter and Cross.
C26_JoinCompilation ==
    (ret.call \in {"Select", "Count"} /\ ret.result # Panic)
        => LET joins == ret.result.sql.text.joins
               relations == PreOrder(qb.Table.Relations)
           IN /\ Len(joins) = Len(relations)
              /\ \A i \in 1..Len(relations) : joins[i] = JoinNamed(relations[i])

\* The descriptor with one component blanked, so that two descriptors equal
\* under it differ at most in that component.
Blanked(b, component) ==
    CASE component = "Fields" -> [b EXCEPT !.Fields = <<>>]
      [] component = "Wheres" -> [b EXCEPT !.Wheres = <<>>]
      [] component = "Sorts" -> [b EXCEPT !.Sorts = <<>>]
      [] component = "GroupBy" -> [b EXCEPT !.GroupBy = <<>>]
      [] component = "Relations" -> [b EXCEPT !.Table.Relations = <<>>]
      [] component = "limit" -> [b EXCEPT !.limit = 0]
      [] component = "offset" -> [b EXCEPT !.offset = 0]

\* The one component each chaining method writes.
Written(call) ==
    CASE call = "WithFields" -> "Fields"
      [] call = "Where" -> "Wheres"
      [] call = "OrderBy" -> "Sorts"
      [] call = "GroupByFields" -> "GroupBy"
      [] call \in {"Join", "InnerJoin", "LeftJoin", "RightJoin"} -> "Relations"
      [] call = "Limit" -> "limit"
      [] call = "Offset" -> "offset"

ChainingMethods ==
    {"WithFields", "Where", "OrderBy", "GroupByFields", "Join", "InnerJoin",
     "LeftJoin", "RightJoin", "Limit", "Offset"}
QueryMethods == {"Select", "Count", "Add", "Edit", "Delete"}

\* The entry an Add or an Edit was called with, as far as its result shows it.
EntryShown(r) ==
    IF r.result = Panic \/ r.result.err # GNil THEN <<>>
    ELSE IF r.call = "Add" THEN r.result.sql.text.rows
    ELSE IF r.call = "Edit" THEN <<r.result.sql.text.set>>
    ELSE <<>>

\* One call of a method, as a step.
FrameStep ==
    /\ ret'.call \in ChainingMethods
           => Blanked(qb', Written(ret'.call)) = Blanked(qb, Written(ret'.call))
    /\ ret'.call \in QueryMethods => qb' = qb
    /\ (ret'.call \in QueryMethods /\ ret.call = ret'.call /\ EntryShown(ret) = EntryShown(ret'))
           => ret'.result = ret.result

\* C27: WithFields changes only Fields, Where only Wheres, OrderBy only Sorts,
\* GroupByFields only GroupBy, the Join methods only Table.Relations, Limit
\* only limit and Offset only offset; Select, Count, Add, Edit and Delete,
\* failing or not, leave the whole descriptor as it was, and the same call
\* made twice in a row returns the same result.
C27_FrameConditions == [][FrameStep]_vars

\* Edit has been refused on a descriptor that holds fields and no where.
C27_Witness ==
    /\ ret.call = "Edit" /\ ret.result.err = ErrMissingWhereCondition
    /\ Len(qb.Fields) > 0 /\ qb.limit = 5 /\ qb.Wheres = <<>>

\* C28: whenever Edit or Delete returns a statement instead of
\* ErrMissingWhereCondition, at least one entry of Wheres resolves to a
\* predicate that is not absent.
C28_MutationGuard ==
    (/\ ret.call \in {"Edit", "Delete"}
     /\ ret.result # Panic
     /\ ret.result.err = GNil)
        => \E i \in 1..Len(qb.Wheres) : handleAny(qb.Wheres[i], <<>>) # XNil

(***************************************************************************)
(* The limit and the offset across encoding: either a descriptor built     *)
(* with the builder methods, with and without Limit and Offset calls, is   *)
(* encoded and decoded into a fresh SQLBuilder, or a document, with and    *)
(* without `limit` and `offset` members, is decoded as JSON and as YAML.   *)
(***************************************************************************)
\* New, then Limit(l) when l is given, then Offset(o) when o is given.
Limited(b, l, o) ==
    LET afterLimit == IF l = <<>> THEN b ELSE Limit(b, l[1])
    IN IF o = <<>> THEN afterLimit ELSE Offset(afterLimit, o[1])
LimitCalls == {<<>>, <<0>>, <<5>>}
OffsetCalls == {<<>>, <<0>>, <<3>>}
LimitedDescriptors ==
    {Limited(OrderBy(Where(WithFields(New("postgres", "users", "u"), fs), ws), ss), l, o) :
        fs \in {<<>>, <<Field("id", "u", "", GNil)>>},
        ws \in {<<>>, <<eqBoolOp>>},
        ss \in {<<>>, <<Sort("name", "u", "DescSortDir")>>},
        l \in LimitCalls, o \in OffsetCalls}

\* A document with `limit` and `offset` members added.
WithMembers(d, members) == JObj(d.kv \o members)
LimitMembers ==
    {<<>>, Member("limit", JNum(5)), Member("offset", JNum(3)),
     Member("limit", JNum(5)) \o Member("offset", JNum(3)),
     Member("Limit", JNum(5)) \o Member("Offset", JNum(3))}
LimitedDocuments ==
    {WithMembers(Document(fs, <<>>, ws, <<>>), ms) :
        fs \in {<<>>, <<fieldNode>>}, ws \in {<<>>, <<boolNode>>, <<unknownNode>>},
        ms \in LimitMembers}

InitImage ==
    /\ \/ qb \in LimitedDescriptors /\ doc = NotRun
       \/ qb = NotRun /\ doc \in LimitedDocuments
    /\ wire = NotRun /\ restored = NotRun /\ viaYAML = NotRun
    /\ ret = NotRun /\ cond = NotRun /\ expr = NotRun
    /\ val = NotRun /\ back = NotRun
    /\ arg = NotRun /\ opts = NotRun /\ out = NotRun
    /\ passed = NotRun /\ text = NotRun /\ parsed = NotRun

NextImage == MarshalDescriptor \/ UnmarshalDescriptor \/ DecodeJSON \/ DecodeYAML

SpecImage == InitImage /\ [][NextImage]_vars

\* A decoded descriptor has limit 0 and offset 0 and its Select has neither a
\* LIMIT nor an OFFSET clause.
Unlimited(b) ==
    (b # NotRun /\ ~IsErr(b)) =>
        /\ b.limit = 0 /\ b.offset = 0
        /\ Select(b) # Panic
        /\ LimitClause(Select(b)) = <<>> /\ OffsetClause(Select(b)) = <<>>

\* C29: a SQLBuilder decoded from a JSON or a YAML document has limit 0 and
\* offset 0 and its Select emits no LIMIT and no OFFSET; the encoding of a
\* builder has no limit and no offset member and is the encoding of the
\* builder with both set to 0; a builder with a non-zero limit and its
\* encode-decode image give different Select output.
C29_LimitNotSerialized ==
    /\ Unlimited(restored) /\ Unlimited(viaYAML)
    /\ wire # NotRun =>
          /\ Keys(wire) \cap {"limit", "offset", "Limit", "Offset"} = {}
          /\ wire = Marshal(Offset(Limit(qb, 0), 0))
    /\ (qb # NotRun /\ restored # NotRun /\ qb.limit > 0) =>
          /\ ~IsErr(restored)
          /\ Select(restored) # Select(qb)
          /\ LimitClause(Select(qb)) = <<qb.limit>>

\* C29's case: a builder still at the default limit of New has been encoded
\* and decoded, and the image's Select has lost the LIMIT 10 of the builder's.
C29_Witness ==
    /\ qb # NotRun /\ qb.limit = DefaultLimit /\ qb.Wheres # <<>>
    /\ wire # NotRun /\ restored # NotRun /\ ~IsErr(restored)
    /\ LimitClause(Select(qb)) = <<DefaultLimit>>
    /\ LimitClause(Select(restored)) = <<>>

\* The nested builder a resolved value holds: the value itself (or what a
\* pointer to it points to), or the right-hand side of a comparison.
IsSubQuery(v) == v # GNil /\ pointee(v).g = "SQLBuilder"
Unpaged(b) == [b EXCEPT !.limit = 0, !.offset = 0]
\* The sub-select of a nested builder: its joins, fields, wheres, sorts and
\* GROUP BY list as Select renders them, and neither a LIMIT nor an OFFSET.
BaseSelect(sub, b) ==
    /\ sub # Panic /\ sub.x = "Select"
    /\ sub.limit = 0 /\ sub.offset = 0
    /\ Prepared(sub) = Select(Unpaged(b)).sql.text
    /\ Len(sub.joins) = RelationCount(b.Table.Relations)
    /\ Len(sub.selects) = Len(b.Fields) /\ Len(sub.wheres) = Len(b.Wheres)
    /\ Len(sub.order) = Len(b.Sorts) /\ Len(sub.groupBy) = Len(b.GroupBy)

\* C30: resolving a SQLBuilder, or a pointer to one, as a value yields its
\* base select (joins, fields, wheres, sorts, GROUP BY) and never its LIMIT or
\* OFFSET, so that nested builders that differ only in limit and offset
\* resolve to the same sub-select, as a value of their own and as the value of
\* a comparison.
C30_SubQueryBaseSelect ==
    /\ (out # NotRun /\ IsSubQuery(arg)) =>
          /\ BaseSelect(out, pointee(arg))
          /\ \A q \in Paged(pointee(arg)) :
                 handleAny(q, opts) = out /\ handleAny(GPtr(q), opts) = out
    /\ (out # NotRun /\ arg # GNil /\ arg.g = "BoolOp" /\ IsSubQuery(arg.Value)) =>
          /\ out # Panic /\ BaseSelect(out.rhs, pointee(arg.Value))
          /\ \A q \in Paged(pointee(arg.Value)) :
                 handleAny([arg EXCEPT !.Value = q], opts) = out

\* C30's case: a pointer to a nested builder with joins, sorts, a GROUP BY
\* list, limit 5 and offset 3 has been resolved.
C30_Witness ==
    /\ out # NotRun /\ arg # GNil /\ arg.g = "ptr" /\ arg.p.g = "SQLBuilder"
    /\ arg.p.limit = 5 /\ arg.p.offset = 3
    /\ out.x = "Select" /\ Len(out.joins) = 1 /\ Len(out.order) = 1
    /\ out.limit = 0 /\ out.offset = 0

====
